---------------------------- MODULE Spec2Model ----------------------------
(***************************************************************************)
(* The two Saleae importers of the trace processor:                        *)
(*   SaleaeBinaryTraceReader  (binary export: legacy, magic v0, magic v1)  *)
(*   SaleaeCsvTraceReader     (CSV decoder output, I2C reconstruction)     *)
(* Each run constructs one reader, delivers a byte sequence to it with     *)
(* Parse (feed) calls and ends it with NotifyEndOfFile (finish).           *)
(*                                                                         *)
(* Bytes are numbers 0..255; text is a sequence of ASCII codes.  64-bit    *)
(* fields are kept as their 8 little-endian bytes and size_t arithmetic is *)
(* done on those bytes modulo 2^64.  Doubles are decoded from their        *)
(* IEEE-754 bytes into sixteenths of a second (the model's inputs are      *)
(* dyadic values for which every floating-point operation is exact).       *)
(***************************************************************************)
EXTENDS Integers, Sequences, FiniteSets, TLC

\* ------------------------------------------------------------- bounds
\* Largest number of Parse calls the driver makes on one reader.
MaxFeeds == 2
\* Largest number of transitions (samples) carried by a generated chunk.
MaxPayload == 2
\* Largest chunk_count (waveform_count) of a generated file.
MaxChunks == 2

\* ------------------------------------------------ program constants
\* std::nullopt of an optional index or track id.
None == -1
kSaleaeV0FileId == 12032
kSaleaeVersion0 == 0
kSaleaeVersion1 == 1
kSaleaeDigitalType == 0
kSaleaeAnalogType == 1
\* "<SALEAE>"
kSaleaeMagic == <<60, 83, 65, 76, 69, 65, 69, 62>>
\* sizeof(double), sizeof(float), sizeof(int32_t), sizeof(int64_t)
SizeofDouble == 8
SizeofFloat == 4
SizeofInt32 == 4
SizeofInt64 == 8
\* Nanoseconds in one sixteenth of a second: llround(x / 16 * 1e9).
NsPerSixteenth == 62500000

\* ------------------------------------------------ fixed-width integers
\* The little-endian bytes of a small non-negative number (file builder).
LE32(n) == <<n % 256, (n \div 256) % 256, (n \div 65536) % 256, (n \div 16777216) % 256>>
LE64(n) == LE32(n) \o <<0, 0, 0, 0>>

\* memcpy into an int32_t: the signed value of four little-endian bytes.
I32(b) == b[1] + 256 * b[2] + 65536 * b[3] + 16777216 * (IF b[4] >= 128 THEN b[4] - 256 ELSE b[4])

\* An int64_t read from eight bytes is negative iff its top bit is set.
I64Negative(b) == b[8] >= 128
U64Zero(b) == \A i \in 1..8 : b[i] = 0

RECURSIVE U64MulFrom(_, _, _, _)
U64MulFrom(a, k, i, carry) ==
    IF i > 8 THEN <<>>
    ELSE LET p == a[i] * k + carry
         IN <<p % 256>> \o U64MulFrom(a, k, i + 1, p \div 256)
\* a * k in size_t arithmetic: the carry out of the top byte is dropped.
U64Mul(a, k) == U64MulFrom(a, k, 1, 0)

RECURSIVE U64AddFrom(_, _, _, _)
U64AddFrom(a, b, i, carry) ==
    IF i > 8 THEN <<>>
    ELSE LET s == a[i] + b[i] + carry
         IN <<s % 256>> \o U64AddFrom(a, b, i + 1, s \div 256)
\* a + b in size_t arithmetic (modulo 2^64).
U64Add(a, b) == U64AddFrom(a, b, 1, 0)

RECURSIVE U64LessFrom(_, _, _)
U64LessFrom(a, b, i) ==
    IF i = 0 THEN FALSE
    ELSE IF a[i] # b[i] THEN a[i] < b[i]
    ELSE U64LessFrom(a, b, i - 1)
\* a < b as unsigned 64-bit numbers.
U64Less(a, b) == U64LessFrom(a, b, 8)

\* The value of a 64-bit number known to be below 2^31.
U64ToNat(b) == b[1] + 256 * b[2] + 65536 * b[3] + 16777216 * b[4]

\* ------------------------------------------------------------- doubles
\* A double whose low six bytes are zero is +-(16 + m) * 2^(e - 1027); the
\* value in sixteenths of a second.  Only exactly representable sixteenths
\* are decoded (the inputs of the model are such values).
F64Exp(b) == (b[8] % 128) * 16 + (b[7] \div 16)
F64Man(b) == b[7] % 16
F64Neg(b) == b[8] >= 128
Pow2(n) == CASE n = 0 -> 1 [] n = 1 -> 2 [] n = 2 -> 4 [] n = 3 -> 8 [] n = 4 -> 16
F64Sixteenths(b) ==
    LET e == F64Exp(b)
        mag == IF e = 0 /\ F64Man(b) = 0 THEN 0
               ELSE IF e >= 1023 THEN (16 + F64Man(b)) * Pow2(e - 1023)
               ELSE (16 + F64Man(b)) \div Pow2(1023 - e)
    IN IF F64Neg(b) THEN 0 - mag ELSE mag

\* A double with all exponent bits set and a non-zero fraction is a NaN: it
\* compares false with everything, and arithmetic on it gives a NaN.
F64IsNaN(b) == F64Exp(b) = 2047 /\ (F64Man(b) # 0 \/ \E i \in 1..6 : b[i] # 0)

\* memcpy into a float then static_cast<double>: same layout with an 8-bit
\* exponent; the value in sixteenths.
F32Sixteenths(b) ==
    LET e == (b[4] % 128) * 2 + (b[3] \div 128)
        m == (b[3] % 128) \div 8
        mag == IF e = 0 THEN 0
               ELSE IF e >= 127 THEN (16 + m) * Pow2(e - 127)
               ELSE (16 + m) \div Pow2(127 - e)
    IN IF b[4] >= 128 THEN 0 - mag ELSE mag

\* SecondsToNs: llround(seconds * 1e9), on a value given in sixteenths.
BinSecondsToNs(x16) == x16 * NsPerSixteenth


\* ------------------------------------------------------- binary reader
\* The machine a binary decode works on: the reader's members (buffer_,
\* track_id_, data_type_), the cursor pos of ParseBuffer, the storage
\* tables it writes (tracks, counters), the status returned, whether a byte
\* at or beyond buffer_.size() was read (oob) and a log of the decoded chunks.

\* ReadField's bounds test, for the || chain of reads of sizes `sizes`: the
\* position after the last field, or None when some read fails.
RECURSIVE ReadFields(_, _, _)
ReadFields(buffer, pos, sizes) ==
    IF sizes = <<>> THEN pos
    ELSE IF pos + Head(sizes) > Len(buffer) THEN None
    ELSE ReadFields(buffer, pos + Head(sizes), Tail(sizes))

\* The bytes memcpy'd for a field of n bytes at pos.
Field(buffer, pos, n) == SubSeq(buffer, pos + 1, pos + n)

MatchesMagic(buffer) ==
    IF Len(buffer) < Len(kSaleaeMagic) THEN FALSE
    ELSE SubSeq(buffer, 1, Len(kSaleaeMagic)) = kSaleaeMagic

ParseDataType(raw_type) == IF raw_type = kSaleaeAnalogType THEN "kAnalog" ELSE "kDigital"

\* A track_id_ that is overwritten by every CreateTrack call.
ValueOrCreateTrackFresh(m, blueprint, name) ==
    [m EXCEPT !.tracks = Append(@, [blueprint |-> blueprint, dimension |-> <<>>, name |-> name]),
              !.track_id_ = Len(m.tracks)]

\* track_id_.value_or(CreateTrack(...)): the argument is evaluated before
\* value_or is entered, so CreateTrack runs on every call and adds a track
\* row; its id is used only when track_id_ holds no value.
ValueOrCreateTrack(m, blueprint, name) ==
    LET created == Len(m.tracks)
    IN [m EXCEPT !.tracks = Append(@, [blueprint |-> blueprint, dimension |-> <<>>, name |-> name]),
                 !.track_id_ = IF @ = None THEN created ELSE @]

PushCounter(m, samples) ==
    [m EXCEPT !.counters = @ \o [i \in 1..Len(samples) |->
                                   [ts |-> samples[i].ts, value |-> samples[i].value, track |-> m.track_id_]]]

BinFail(m, decoder, msg, entry) ==
    [m EXCEPT !.status = msg,
              !.chunkLog = Append(@, [decoder |-> decoder, status |-> msg, emitted |-> 0, created |-> 0] @@ entry)]

\* The transition loop without its state = 1 - state: every sample repeats
\* the state the chunk began with.
RECURSIVE DigitalTransitionsStuck(_, _, _, _)
DigitalTransitionsStuck(buffer, pos, n, state) ==
    IF n = 0 THEN <<>>
    ELSE <<[ts |-> BinSecondsToNs(F64Sixteenths(Field(buffer, pos, SizeofDouble))), value |-> state]>>
         \o DigitalTransitionsStuck(buffer, pos + SizeofDouble, n - 1, state)

\* The loop over the transitions: state = 1 - state, PushCounter.
RECURSIVE DigitalTransitions(_, _, _, _)
DigitalTransitions(buffer, pos, n, state) ==
    IF n = 0 THEN <<>>
    ELSE <<[ts |-> BinSecondsToNs(F64Sixteenths(Field(buffer, pos, SizeofDouble))), value |-> 1 - state]>>
         \o DigitalTransitions(buffer, pos + SizeofDouble, n - 1, 1 - state)

\* The part of both digital decoders after the fit test: track, first
\* sample, transitions.  `after` is the position after the chunk header.
\* When more transitions are declared than the buffer holds (the fit test
\* let them pass), the loop reads past the end of buffer_: undefined
\* behaviour, whose outcome `ub` the caller draws.
EmitDigital(m, decoder, after, initial_state_raw, begin_time, num_transitions, ub) ==
    LET avail == (Len(m.buffer_) - after) \div SizeofDouble
        overrun == U64Less(LE64(avail), num_transitions)
        n == IF overrun THEN avail ELSE U64ToNat(num_transitions)
        state == IF initial_state_raw # <<0, 0, 0, 0>> THEN 1 ELSE 0
        samples == <<[ts |-> BinSecondsToNs(F64Sixteenths(begin_time)), value |-> state]>>
                   \o DigitalTransitions(m.buffer_, after, n, state)
        t == PushCounter(ValueOrCreateTrack(m, "saleae_digital", "Saleae Digital"), samples)
        st == IF overrun THEN ub ELSE "ok"
    IN [t EXCEPT !.pos = after + n * SizeofDouble,
                 !.oob = @ \/ overrun,
                 !.status = st,
                 !.chunkLog = Append(@, [decoder |-> decoder, status |-> st, emitted |-> Len(samples),
                                         created |-> 1, headerRead |-> TRUE, declared |-> num_transitions,
                                         avail |-> avail, initial |-> initial_state_raw,
                                         begin |-> begin_time, at |-> after, offset |-> Len(m.counters)])]

ParseDigitalChunk(m, ub) ==
    LET after == ReadFields(m.buffer_, m.pos, <<SizeofInt32, SizeofDouble, SizeofDouble, SizeofDouble, SizeofInt64>>)
        initial_state_raw == Field(m.buffer_, m.pos, SizeofInt32)
        begin_time == Field(m.buffer_, m.pos + 12, SizeofDouble)
        num_transitions == Field(m.buffer_, m.pos + 28, SizeofInt64)
        entry == [headerRead |-> TRUE, declared |-> num_transitions,
                  avail |-> (Len(m.buffer_) - after) \div SizeofDouble, initial |-> 0]
    IN IF after = None
       THEN BinFail(m, "digital_v1", "Saleae digital chunk truncated",
                    [headerRead |-> FALSE, declared |-> LE64(0), avail |-> 0, initial |-> 0])
       ELSE IF I64Negative(num_transitions)
       THEN BinFail(m, "digital_v1", "Saleae digital transition count invalid", entry)
       ELSE IF U64Less(LE64(Len(m.buffer_)), U64Add(LE64(after), U64Mul(num_transitions, SizeofDouble)))
       THEN BinFail(m, "digital_v1", "Saleae digital transitions truncated", entry)
       ELSE EmitDigital(m, "digital_v1", after, initial_state_raw, begin_time, num_transitions, ub)

\* A version 0 decoder that takes end_time for begin_time.
ParseDigitalChunkV0EndTime(m, ub) ==
    LET after == ReadFields(m.buffer_, m.pos, <<SizeofInt32, SizeofDouble, SizeofDouble, SizeofInt64>>)
        num_transitions == Field(m.buffer_, m.pos + 20, SizeofInt64)
    IN IF after = None \/ U64Less(LE64(Len(m.buffer_)), U64Add(LE64(after), U64Mul(num_transitions, SizeofDouble)))
       THEN BinFail(m, "digital_v0", "Saleae digital v0 transitions truncated",
                    [headerRead |-> after # None, declared |-> LE64(0), avail |-> 0, initial |-> 0])
       ELSE EmitDigital(m, "digital_v0", after, Field(m.buffer_, m.pos, SizeofInt32),
                        Field(m.buffer_, m.pos + 12, SizeofDouble), num_transitions, ub)

ParseDigitalChunkV0(m, ub) ==
    LET after == ReadFields(m.buffer_, m.pos, <<SizeofInt32, SizeofDouble, SizeofDouble, SizeofInt64>>)
        initial_state_raw == Field(m.buffer_, m.pos, SizeofInt32)
        begin_time == Field(m.buffer_, m.pos + 4, SizeofDouble)
        num_transitions == Field(m.buffer_, m.pos + 20, SizeofInt64)
        entry == [headerRead |-> TRUE, declared |-> num_transitions,
                  avail |-> (Len(m.buffer_) - after) \div SizeofDouble, initial |-> 0]
    IN IF after = None
       THEN BinFail(m, "digital_v0", "Saleae digital v0 header truncated",
                    [headerRead |-> FALSE, declared |-> LE64(0), avail |-> 0, initial |-> 0])
       ELSE IF U64Less(LE64(Len(m.buffer_)), U64Add(LE64(after), U64Mul(num_transitions, SizeofDouble)))
       THEN BinFail(m, "digital_v0", "Saleae digital v0 transitions truncated", entry)
       ELSE EmitDigital(m, "digital_v0", after, initial_state_raw, begin_time, num_transitions, ub)

WaveFail(m, decoder, msg, entry) ==
    [m EXCEPT !.status = msg,
              !.waveLog = Append(@, [decoder |-> decoder, status |-> msg, emitted |-> 0] @@ entry)]

\* A time of the sample loop: <<x>> for x sixteenths of a second, <<>> for a
\* NaN.  current_time += step:
TimePlus(current_time, step) ==
    IF current_time = <<>> \/ step = <<>> THEN <<>> ELSE <<current_time[1] + step[1]>>

\* SecondsToNs of a NaN: llround's result is unspecified then; the outcome
\* selects one of two values it may return.
LlroundNaN(ub) == IF ub = "garbage" THEN 0 - 1 ELSE 0

\* The loop over the samples: PushCounter(SecondsToNs(current_time),
\* sample), current_time += step.
RECURSIVE AnalogSamples(_, _, _, _, _, _)
AnalogSamples(buffer, pos, n, current_time, step, ub) ==
    IF n = 0 THEN <<>>
    ELSE <<[ts |-> IF current_time = <<>> THEN LlroundNaN(ub) ELSE BinSecondsToNs(current_time[1]),
            value |-> F32Sixteenths(Field(buffer, pos, SizeofFloat))]>>
         \o AnalogSamples(buffer, pos + SizeofFloat, n - 1, TimePlus(current_time, step), step, ub)

\* The sample loop of both analog decoders, after the fit test.  As in
\* EmitDigital, declared samples the buffer does not hold are read past the
\* end of buffer_ (undefined behaviour, outcome `ub`).
EmitAnalog(m, decoder, after, begin_time, step, entry, ub) ==
    LET num_samples == entry.declared
        avail == (Len(m.buffer_) - after) \div SizeofFloat
        overrun == U64Less(LE64(avail), num_samples)
        n == IF overrun THEN avail ELSE U64ToNat(num_samples)
        samples == AnalogSamples(m.buffer_, after, n, <<begin_time>>, step, ub)
        st == IF overrun THEN ub ELSE "ok"
    IN [PushCounter(m, samples) EXCEPT
                 !.pos = after + n * SizeofFloat,
                 !.oob = @ \/ overrun,
                 !.status = st,
                 !.waveLog = Append(@, [decoder |-> decoder, status |-> st, emitted |-> Len(samples)] @@ entry)]

\* if (sample_rate <= 0.0): false for a NaN.
SampleRateInvalid(sample_rate) == ~F64IsNaN(sample_rate) /\ F64Sixteenths(sample_rate) <= 0

\* One iteration of the waveform loop of ParseAnalogWaveformV1.
AnalogWaveformV1(m, ub) ==
    LET after == ReadFields(m.buffer_, m.pos, <<SizeofDouble, SizeofDouble, SizeofDouble, SizeofInt64, SizeofInt64>>)
        begin_time == Field(m.buffer_, m.pos, SizeofDouble)
        sample_rate == Field(m.buffer_, m.pos + 16, SizeofDouble)
        downsample == Field(m.buffer_, m.pos + 24, SizeofInt64)
        num_samples == Field(m.buffer_, m.pos + 32, SizeofInt64)
        entry == [headerRead |-> TRUE, declared |-> num_samples,
                  avail |-> (Len(m.buffer_) - after) \div SizeofFloat,
                  sample_rate |-> sample_rate, downsample |-> downsample]
        \* static_cast<double>(downsample) / sample_rate
        step == IF F64IsNaN(sample_rate) THEN <<>>
                ELSE <<(U64ToNat(downsample) * 256) \div F64Sixteenths(sample_rate)>>
    IN IF after = None
       THEN WaveFail(m, "analog_v1", "Saleae analog v1 waveform truncated",
                     [headerRead |-> FALSE, declared |-> LE64(0), avail |-> 0,
                      sample_rate |-> <<>>, downsample |-> <<>>])
       ELSE IF SampleRateInvalid(sample_rate)
       THEN WaveFail(m, "analog_v1", "Saleae analog v1 sample rate invalid", entry)
       ELSE IF I64Negative(downsample) \/ U64Zero(downsample)
       THEN WaveFail(m, "analog_v1", "Saleae analog v1 downsample invalid", entry)
       ELSE IF U64Less(LE64(Len(m.buffer_)), U64Add(LE64(after), U64Mul(num_samples, SizeofFloat)))
       THEN WaveFail(m, "analog_v1", "Saleae analog v1 samples truncated", entry)
       ELSE EmitAnalog(m, "analog_v1", after, F64Sixteenths(begin_time), step, entry, ub)

\* for (waveform = 0; waveform < waveform_count; ++waveform)
RECURSIVE AnalogWaveforms(_, _, _, _)
AnalogWaveforms(m, waveform, waveform_count, ub) ==
    IF ~U64Less(LE64(waveform), waveform_count) THEN [m EXCEPT !.status = "ok"]
    ELSE LET r == AnalogWaveformV1(m, ub)
         IN IF r.status # "ok" THEN r
            ELSE AnalogWaveforms(r, waveform + 1, waveform_count, ub)

ParseAnalogWaveformV1(m, ub) ==
    LET after == ReadFields(m.buffer_, m.pos, <<SizeofInt64>>)
        waveform_count == Field(m.buffer_, m.pos, SizeofInt64)
    IN IF after = None
       THEN BinFail(m, "analog_v1", "Saleae analog v1 header truncated",
                    [headerRead |-> FALSE, declared |-> LE64(0), avail |-> 0, initial |-> 0])
       ELSE LET t == ValueOrCreateTrack(m, "saleae_analog", "Saleae Analog")
                r == AnalogWaveforms([t EXCEPT !.pos = after], 0, waveform_count, ub)
            IN [r EXCEPT !.chunkLog = Append(@, [decoder |-> "analog_v1", status |-> r.status,
                            emitted |-> Len(r.counters) - Len(m.counters), created |-> 1,
                            headerRead |-> TRUE, declared |-> waveform_count, avail |-> 0, initial |-> 0])]

ParseAnalogWaveformV0(m, ub) ==
    LET after == ReadFields(m.buffer_, m.pos, <<SizeofDouble, SizeofInt64, SizeofInt64, SizeofInt64>>)
        begin_time == Field(m.buffer_, m.pos, SizeofDouble)
        sample_rate == Field(m.buffer_, m.pos + 8, SizeofInt64)
        downsample == Field(m.buffer_, m.pos + 16, SizeofInt64)
        num_samples == Field(m.buffer_, m.pos + 24, SizeofInt64)
        entry == [headerRead |-> TRUE, declared |-> num_samples,
                  avail |-> (Len(m.buffer_) - after) \div SizeofFloat,
                  sample_rate |-> sample_rate, downsample |-> downsample]
        chunk(r, created) == [r EXCEPT !.chunkLog = Append(@, [decoder |-> "analog_v0", status |-> r.status,
                            emitted |-> Len(r.counters) - Len(m.counters), created |-> created,
                            headerRead |-> after # None, declared |-> LE64(1), avail |-> 0, initial |-> 0])]
    IN IF after = None
       THEN chunk(WaveFail(m, "analog_v0", "Saleae analog v0 header truncated",
                           [headerRead |-> FALSE, declared |-> LE64(0), avail |-> 0,
                            sample_rate |-> <<>>, downsample |-> <<>>]), 0)
       ELSE IF U64Zero(sample_rate)
       THEN chunk(WaveFail(m, "analog_v0", "Saleae analog v0 sample rate invalid", entry), 0)
       ELSE IF U64Zero(downsample)
       THEN chunk(WaveFail(m, "analog_v0", "Saleae analog v0 downsample invalid", entry), 0)
       ELSE IF U64Less(LE64(Len(m.buffer_)), U64Add(LE64(after), U64Mul(num_samples, SizeofFloat)))
       THEN chunk(WaveFail(m, "analog_v0", "Saleae analog v0 samples truncated", entry), 0)
       ELSE chunk(EmitAnalog(ValueOrCreateTrack(m, "saleae_analog", "Saleae Analog"), "analog_v0", after,
                             F64Sixteenths(begin_time),
                             <<(U64ToNat(downsample) * 16) \div U64ToNat(sample_rate)>>, entry, ub), 1)

ParseVersion0(m, ub) ==
    IF m.data_type_ = "kDigital" THEN ParseDigitalChunkV0(m, ub) ELSE ParseAnalogWaveformV0(m, ub)

ParseVersion1(m, ub) ==
    IF m.data_type_ = "kDigital" THEN ParseDigitalChunk(m, ub) ELSE ParseAnalogWaveformV1(m, ub)

\* A chunk loop that leaves at a failing chunk without returning its error.
RECURSIVE ChunkLoopSwallow(_, _, _, _)
ChunkLoopSwallow(m, i, chunk_count, ub) ==
    IF ~U64Less(LE64(i), chunk_count) THEN [m EXCEPT !.status = "ok"]
    ELSE LET r == ParseVersion1(m, ub)
         IN IF r.status # "ok" THEN [r EXCEPT !.status = "ok"]
            ELSE ChunkLoopSwallow(r, i + 1, chunk_count, ub)

\* for (i = 0; i < chunk_count; ++i) RETURN_IF_ERROR(ParseVersion1(...))
RECURSIVE ChunkLoop(_, _, _, _)
ChunkLoop(m, i, chunk_count, ub) ==
    IF ~U64Less(LE64(i), chunk_count) THEN [m EXCEPT !.status = "ok"]
    ELSE LET r == ParseVersion1(m, ub)
         IN IF r.status # "ok" THEN r
            ELSE ChunkLoop(r, i + 1, chunk_count, ub)

\* A header test that lets every raw_type through.
SupportedTypeAny(raw_type) == TRUE

\* raw_type is kSaleaeDigitalType or kSaleaeAnalogType.
SupportedType(raw_type) == raw_type = kSaleaeDigitalType \/ raw_type = kSaleaeAnalogType

ParseBuffer(m, ub) ==
    IF MatchesMagic(m.buffer_)
    THEN LET pos == Len(kSaleaeMagic)
             after == ReadFields(m.buffer_, pos, <<SizeofInt32, SizeofInt32>>)
             version == I32(Field(m.buffer_, pos, SizeofInt32))
             raw_type == I32(Field(m.buffer_, pos + 4, SizeofInt32))
             typed == [m EXCEPT !.data_type_ = ParseDataType(raw_type), !.pos = after]
         IN IF after = None THEN [m EXCEPT !.status = "Saleae v1 header truncated"]
            ELSE IF ~SupportedType(raw_type)
            THEN [m EXCEPT !.status = "Unsupported Saleae data type"]
            ELSE IF version = kSaleaeVersion1
            THEN LET chunk_count == Field(m.buffer_, after, SizeofInt64)
                 IN IF ReadFields(m.buffer_, after, <<SizeofInt64>>) = None
                    THEN [typed EXCEPT !.status = "Saleae v1 header truncated"]
                    ELSE IF I64Negative(chunk_count)
                    THEN [typed EXCEPT !.status = "Invalid Saleae chunk count"]
                    ELSE ChunkLoop([typed EXCEPT !.pos = after + SizeofInt64], 0, chunk_count, ub)
            ELSE IF version = kSaleaeVersion0
            THEN ParseVersion0(typed, ub)
            ELSE [typed EXCEPT !.status = "Unsupported Saleae version"]
    ELSE LET after == ReadFields(m.buffer_, 0, <<SizeofInt32, SizeofInt32, SizeofInt32>>)
             file_id == Field(m.buffer_, 0, SizeofInt32)
             version == I32(Field(m.buffer_, 4, SizeofInt32))
             raw_type == I32(Field(m.buffer_, 8, SizeofInt32))
         IN IF after = None THEN [m EXCEPT !.status = "Saleae v0 header truncated"]
            ELSE IF file_id # LE32(kSaleaeV0FileId) \/ version # kSaleaeVersion0
            THEN [m EXCEPT !.status = "Unsupported Saleae header"]
            ELSE IF ~SupportedType(raw_type)
            THEN [m EXCEPT !.status = "Unsupported Saleae data type"]
            ELSE ParseVersion0([m EXCEPT !.data_type_ = ParseDataType(raw_type), !.pos = after], ub)

\* A Parse that keeps only the last blob.
BinParseReplace(m, blob) == [m EXCEPT !.buffer_ = blob, !.status = "ok"]

\* Parse(blob): buffer_.insert(buffer_.end(), blob...); return OkStatus().
BinParse(m, blob) == [m EXCEPT !.buffer_ = @ \o blob, !.status = "ok"]

\* An end of file that refuses a buffer the decoders did not read to its end.
BinNotifyEndOfFileStrict(m, ub) ==
    IF m.buffer_ = <<>> THEN [m EXCEPT !.status = "Empty Saleae binary data"]
    ELSE LET r == ParseBuffer(m, ub)
         IN IF r.status = "ok" /\ r.pos # Len(r.buffer_)
            THEN [r EXCEPT !.status = "Saleae trailing bytes"]
            ELSE r

\* An end of file without the buffer_.empty() test.
BinNotifyEndOfFileUnguarded(m, ub) == ParseBuffer(m, ub)

BinNotifyEndOfFile(m, ub) ==
    IF m.buffer_ = <<>> THEN [m EXCEPT !.status = "Empty Saleae binary data"]
    ELSE ParseBuffer(m, ub)


\* ------------------------------------------------------------ CSV text
\* Text is a sequence of byte values; the literals of the reader:
\* "name"
StrName == <<110, 97, 109, 101>>
\* "type"
StrType == <<116, 121, 112, 101>>
\* "start_time"
StrStartTime == <<115, 116, 97, 114, 116, 95, 116, 105, 109, 101>>
\* "start time"
StrStartTimeSp == <<115, 116, 97, 114, 116, 32, 116, 105, 109, 101>>
\* "duration"
StrDuration == <<100, 117, 114, 97, 116, 105, 111, 110>>
\* "data"
StrData == <<100, 97, 116, 97>>
\* "address"
StrAddress == <<97, 100, 100, 114, 101, 115, 115>>
\* "read"
StrRead == <<114, 101, 97, 100>>
\* "Unknown"
StrUnknown == <<85, 110, 107, 110, 111, 119, 110>>
\* "event"
StrEvent == <<101, 118, 101, 110, 116>>
\* "i2c"
StrI2c == <<105, 50, 99>>
\* "start"
StrStart == <<115, 116, 97, 114, 116>>
\* "stop"
StrStop == <<115, 116, 111, 112>>
\* "true"
StrTrue == <<116, 114, 117, 101>>
\* "false"
StrFalse == <<102, 97, 108, 115, 101>>
\* "Saleae CSV: "
StrTrackPrefix == <<83, 97, 108, 101, 97, 101, 32, 67, 83, 86, 58, 32>>
\* " W:"
StrW == <<32, 87, 58>>
\* " R:"
StrR == <<32, 82, 58>>
\* "write_bytes"
StrWriteBytes == <<119, 114, 105, 116, 101, 95, 98, 121, 116, 101, 115>>
\* "read_bytes"
StrReadBytes == <<114, 101, 97, 100, 95, 98, 121, 116, 101, 115>>

\* '\n', '\r', '"', ',', ' ', '\t'
LF == 10
CR == 13
Quote == 34
Comma == 44
Space == 32
Tab == 9

\* base::ToLower: ASCII letters only.
LowerChar(c) == IF c >= 65 /\ c <= 90 THEN c + 32 ELSE c
ToLower(s) == [i \in 1..Len(s) |-> LowerChar(s[i])]

\* base::TrimWhitespace: strips leading and trailing '\t', '\n' and ' '.
IsWhitespace(c) == c \in {Tab, LF, Space}
RECURSIVE TrimLeft(_)
TrimLeft(s) == IF s # <<>> /\ IsWhitespace(Head(s)) THEN TrimLeft(Tail(s)) ELSE s
RECURSIVE TrimRight(_)
TrimRight(s) == IF s # <<>> /\ IsWhitespace(s[Len(s)]) THEN TrimRight(SubSeq(s, 1, Len(s) - 1)) ELSE s
TrimWhitespace(s) == TrimRight(TrimLeft(s))

\* The tokenizer: i is the 1-based index of the character looked at.
RECURSIVE CsvScan(_, _, _, _, _)
CsvScan(line, i, field, in_quotes, fields) ==
    IF i > Len(line) THEN Append(fields, field)
    ELSE LET c == line[i]
         IN IF in_quotes
            THEN IF c = Quote
                 THEN IF i + 1 <= Len(line) /\ line[i + 1] = Quote
                      THEN CsvScan(line, i + 2, Append(field, Quote), TRUE, fields)
                      ELSE CsvScan(line, i + 1, field, FALSE, fields)
                 ELSE CsvScan(line, i + 1, Append(field, c), TRUE, fields)
            ELSE IF c = Quote THEN CsvScan(line, i + 1, field, TRUE, fields)
            ELSE IF c = Comma THEN CsvScan(line, i + 1, <<>>, FALSE, Append(fields, field))
            ELSE CsvScan(line, i + 1, Append(field, c), FALSE, fields)
ParseCsvLine(line) == CsvScan(line, 1, <<>>, FALSE, <<>>)

StripUtf8Bom(value) ==
    IF Len(value) >= 3 /\ value[1] = 239 /\ value[2] = 187 /\ value[3] = 191
    THEN SubSeq(value, 4, Len(value))
    ELSE value

JoinBytes(bytes) ==
    LET RECURSIVE Join(_)
        Join(i) == IF i > Len(bytes) THEN <<>>
                   ELSE (IF i > 1 THEN <<Space>> ELSE <<>>) \o bytes[i] \o Join(i + 1)
    IN Join(1)

\* base::StringToDouble on plain decimal text: [sign] digits [. digits].
\* The value is kept exactly: ns is the value truncated to whole
\* nanoseconds, next the following decimal digit.  Text that is no plain
\* decimal is rejected (the rows of the model hold no exponent, hex, inf or nan
\* forms, which strtod would accept).
IsDigit(c) == c >= 48 /\ c <= 57
Pow10(n) == CASE n = 0 -> 1 [] n = 1 -> 10 [] n = 2 -> 100 [] n = 3 -> 1000 [] n = 4 -> 10000
              [] n = 5 -> 100000 [] n = 6 -> 1000000 [] n = 7 -> 10000000 [] n = 8 -> 100000000
              [] n = 9 -> 1000000000
RECURSIVE DecimalScan(_, _, _, _, _, _)
\* frac = 0 while in the integer part, else the number of fraction digits seen + 1
DecimalScan(s, i, frac, ns, next, digits) ==
    IF i > Len(s) THEN [ok |-> digits > 0, ns |-> ns, next |-> next]
    ELSE LET c == s[i]
         IN IF IsDigit(c)
            THEN IF frac = 0 THEN DecimalScan(s, i + 1, 0, ns * 10 + (c - 48) * Pow10(9), 0, digits + 1)
                 ELSE IF frac <= 9 THEN DecimalScan(s, i + 1, frac + 1, ns + (c - 48) * Pow10(9 - frac), 0, digits + 1)
                 ELSE IF frac = 10 THEN DecimalScan(s, i + 1, frac + 1, ns, c - 48, digits + 1)
                 ELSE DecimalScan(s, i + 1, frac + 1, ns, next, digits + 1)
            ELSE IF c = 46 /\ frac = 0 THEN DecimalScan(s, i + 1, 1, ns, 0, digits)
            ELSE [ok |-> FALSE, ns |-> 0, next |-> 0]
StringToDouble(s) ==
    LET neg == s # <<>> /\ s[1] = 45
        signed == s # <<>> /\ s[1] \in {43, 45}
        d == DecimalScan(s, IF signed THEN 2 ELSE 1, 0, 0, 0, 0)
    IN [ok |-> d.ok, neg |-> neg, ns |-> d.ns, next |-> d.next]

\* SecondsToNs: llround(seconds * 1e9), halves away from zero.
CsvSecondsToNs(d) ==
    LET mag == d.ns + (IF d.next >= 5 THEN 1 ELSE 0)
    IN IF d.neg THEN 0 - mag ELSE mag

\* ----------------------------------------------------------- CSV reader
\* The machine a CSV call works on: the reader's members (reader_ is the
\* unconsumed bytes of the TraceBlobViewReader, header_parsed_, columns_, the
\* role indices, track_ids_, transaction_state_), the storage tables it
\* writes (tracks, slices), the status returned, whether a field beyond the
\* row's field list was read (oob) and a log of the rows given to ParseRow.
\* Interned strings are kept as their text (InternString is injective), so
\* column_key_ids_ is columns_.

\* TransactionState{}
NewTransactionState ==
    [open |-> FALSE, start_ts_ns |-> 0, address |-> <<>>, read |-> FALSE,
     write_bytes |-> <<>>, read_bytes |-> <<>>]

\* for (i = 0; i < fields.size(); ++i) of ParseHeader; i is 0-based.
RECURSIVE HeaderFields(_, _, _)
HeaderFields(m, fields, i) ==
    IF i >= Len(fields) THEN m
    ELSE LET trimmed == TrimWhitespace(fields[i + 1])
             field == IF i = 0 THEN StripUtf8Bom(trimmed) ELSE trimmed
             lower == ToLower(field)
             c == [m EXCEPT !.columns_ = Append(@, field)]
             r == IF lower = StrName THEN [c EXCEPT !.name_col_ = i]
                  ELSE IF lower = StrType THEN [c EXCEPT !.type_col_ = i]
                  ELSE IF lower = StrStartTime \/ lower = StrStartTimeSp THEN [c EXCEPT !.start_time_col_ = i]
                  ELSE IF lower = StrDuration THEN [c EXCEPT !.duration_col_ = i]
                  ELSE IF lower = StrData THEN [c EXCEPT !.data_col_ = i]
                  ELSE IF lower = StrAddress THEN [c EXCEPT !.address_col_ = i]
                  ELSE IF lower = StrRead THEN [c EXCEPT !.read_col_ = i]
                  ELSE c
         IN HeaderFields(r, fields, i + 1)

\* A header parse without the test for the required columns.
ParseHeaderLenient(m, line) ==
    LET fields == ParseCsvLine(line)
        r == HeaderFields([m EXCEPT !.columns_ = <<>>], fields, 0)
    IN IF fields = <<>> THEN [m EXCEPT !.status = "Saleae CSV header is empty"]
       ELSE [r EXCEPT !.header_parsed_ = TRUE, !.status = "ok"]

ParseHeader(m, line) ==
    LET fields == ParseCsvLine(line)
        r == HeaderFields([m EXCEPT !.columns_ = <<>>], fields, 0)
    IN IF fields = <<>> THEN [m EXCEPT !.status = "Saleae CSV header is empty"]
       ELSE IF r.name_col_ = None \/ r.type_col_ = None \/ r.start_time_col_ = None \/ r.duration_col_ = None
       THEN [r EXCEPT !.status = "Saleae CSV header missing required columns"]
       ELSE [r EXCEPT !.header_parsed_ = TRUE, !.status = "ok"]

\* std::optional<size_t>::value_or(0)
ValueOr0(col) == IF col = None THEN 0 ELSE col

\* fields[idx] for an index inside the vector (idx is 0-based).
FieldAt(fields, idx) == IF idx < Len(fields) THEN fields[idx + 1] ELSE <<>>

\* fields.resize(columns_.size()) when the row has fewer fields.
ResizeFields(fields, n) ==
    IF Len(fields) < n THEN fields \o [i \in 1..(n - Len(fields)) |-> <<>>] ELSE fields

\* TrackTracker::InternTrack: the row of (blueprint, dimension), added when
\* there is none.
InternTrack(tracks, blueprint, dimension, name) ==
    IF \E i \in 1..Len(tracks) : tracks[i].blueprint = blueprint /\ tracks[i].dimension = dimension
    THEN tracks
    ELSE Append(tracks, [blueprint |-> blueprint, dimension |-> dimension, name |-> name])
TrackIdOf(tracks, blueprint, dimension) ==
    (CHOOSE i \in 1..Len(tracks) : tracks[i].blueprint = blueprint /\ tracks[i].dimension = dimension) - 1

\* The args loop of ParseRow; i is 0-based.
RECURSIVE RowArgs(_, _, _)
RowArgs(m, fields, i) ==
    IF ~(i < Len(m.columns_) /\ i < Len(fields)) THEN <<>>
    ELSE LET value == TrimWhitespace(fields[i + 1])
             lower == ToLower(value)
             rest == RowArgs(m, fields, i + 1)
         IN IF i = m.name_col_ \/ i = m.type_col_ \/ i = m.start_time_col_ \/ i = m.duration_col_ THEN rest
            ELSE IF m.columns_[i + 1] = <<>> THEN rest
            ELSE IF value = <<>> THEN rest
            ELSE IF lower = StrTrue \/ lower = StrFalse
            THEN <<[key |-> m.columns_[i + 1], boolean |-> TRUE, value |-> lower]>> \o rest
            ELSE <<[key |-> m.columns_[i + 1], boolean |-> FALSE, value |-> value]>> \o rest

BuildTransactionName(state) ==
    LET RECURSIVE Bytes(_, _)
        Bytes(list, i) == IF i > Len(list) THEN <<>> ELSE <<Space>> \o list[i] \o Bytes(list, i + 1)
    IN (IF state.address = <<>> THEN StrI2c ELSE state.address)
       \o (IF state.write_bytes # <<>> THEN StrW \o Bytes(state.write_bytes, 1) ELSE <<>>)
       \o (IF state.read_bytes # <<>> THEN StrR \o Bytes(state.read_bytes, 1) ELSE <<>>)

\* slice_tracker->Scoped(ts, track, category, name, dur, args): one slice row.
Scoped(slices, ts, track_id, category, name, dur, args) ==
    Append(slices, [ts |-> ts, track |-> track_id, category |-> category, name |-> name,
                    dur |-> dur, args |-> args])

\* A start branch that lacks the `if (!state->open)` test: every start row
\* begins the transaction anew.
StartStepRestart(state, ts_ns) ==
    [state EXCEPT !.open = TRUE, !.start_ts_ns = ts_ns, !.address = <<>>, !.read = FALSE,
                  !.write_bytes = <<>>, !.read_bytes = <<>>]

\* A start branch that opens the transaction without the clear() calls.
StartStepKeep(state, ts_ns) ==
    IF ~state.open
    THEN [state EXCEPT !.open = TRUE, !.start_ts_ns = ts_ns]
    ELSE state

\* The start branch of the I2C state machine.
StartStep(state, ts_ns) ==
    IF ~state.open
    THEN [state EXCEPT !.open = TRUE, !.start_ts_ns = ts_ns, !.address = <<>>, !.read = FALSE,
                       !.write_bytes = <<>>, !.read_bytes = <<>>]
    ELSE state

\* The address branch of the I2C state machine.
AddressStep(m, state, address_value, read_value) ==
    LET a == IF state.open /\ m.address_col_ # None /\ address_value # <<>>
             THEN [state EXCEPT !.address = address_value] ELSE state
        read_lower == ToLower(read_value)
    IN IF a.open /\ m.read_col_ # None /\ read_value # <<>> /\ (read_lower = StrTrue \/ read_lower = StrFalse)
       THEN [a EXCEPT !.read = (read_lower = StrTrue)] ELSE a

\* A data branch without the `if (state->read)` test: every byte is a write.
DataStepWriteOnly(m, state, data_value) ==
    IF state.open /\ m.data_col_ # None /\ data_value # <<>>
    THEN [state EXCEPT !.write_bytes = Append(@, data_value)]
    ELSE state

\* The data branch of the I2C state machine.
DataStep(m, state, data_value) ==
    IF state.open /\ m.data_col_ # None /\ data_value # <<>>
    THEN IF state.read THEN [state EXCEPT !.read_bytes = Append(@, data_value)]
         ELSE [state EXCEPT !.write_bytes = Append(@, data_value)]
    ELSE state

\* An I2C branch whose stop branch empties the state it closes.
I2cStepStopResets(m, state, type_lower, ts_ns, data_value, address_value, read_value) ==
    IF type_lower = StrStart
    THEN StartStep(state, ts_ns)
    ELSE IF type_lower = StrAddress
    THEN AddressStep(m, state, address_value, read_value)
    ELSE IF type_lower = StrData
    THEN DataStep(m, state, data_value)
    ELSE IF type_lower = StrStop
    THEN IF state.open
         THEN [state EXCEPT !.open = FALSE, !.address = <<>>, !.write_bytes = <<>>, !.read_bytes = <<>>]
         ELSE state
    ELSE state

\* The I2C branch of ParseRow on the state found (or inserted) for the row's
\* analyzer: the state after the row.  The stop branch's slice is emitted by
\* ParseRow; here it only closes.
I2cStep(m, state, type_lower, ts_ns, data_value, address_value, read_value) ==
    IF type_lower = StrStart
    THEN StartStep(state, ts_ns)
    ELSE IF type_lower = StrAddress
    THEN AddressStep(m, state, address_value, read_value)
    ELSE IF type_lower = StrData
    THEN DataStep(m, state, data_value)
    ELSE IF type_lower = StrStop
    THEN IF state.open THEN [state EXCEPT !.open = FALSE] ELSE state
    ELSE state

\* The key under which ParseRow looks up and inserts the transaction state.
TransactionKey(analyzer, analyzer_lower) == analyzer

\* The name of the raw slice: event_name of ParseRow.
EventName(m, type, data_value, address_value) ==
    LET by_data == IF m.data_col_ # None /\ data_value # <<>> THEN data_value ELSE type
    IN IF by_data = type /\ m.address_col_ # None /\ address_value # <<>> THEN address_value ELSE by_data

\* The arguments of the synthesized transaction slice.
TransactionArgs(state) ==
    (IF state.address # <<>> THEN <<[key |-> StrAddress, boolean |-> FALSE, value |-> state.address]>> ELSE <<>>)
    \o (IF state.write_bytes # <<>>
        THEN <<[key |-> StrWriteBytes, boolean |-> FALSE, value |-> JoinBytes(state.write_bytes)]>> ELSE <<>>)
    \o (IF state.read_bytes # <<>>
        THEN <<[key |-> StrReadBytes, boolean |-> FALSE, value |-> JoinBytes(state.read_bytes)]>> ELSE <<>>)

\* A stop branch that lacks the `if (state->open)` test: every stop row
\* synthesizes a transaction slice.
TransactionSlicesOnAnyStop(slices, state, is_stop, track_id, ts_ns, dur_ns) ==
    IF is_stop
    THEN LET transaction_dur_ns == (ts_ns + dur_ns) - state.start_ts_ns
         IN Scoped(slices, state.start_ts_ns, track_id, StrI2c, BuildTransactionName(state),
                   IF transaction_dur_ns < 0 THEN 0 ELSE transaction_dur_ns, TransactionArgs(state))
    ELSE slices

\* A stop branch without the `if (transaction_dur_ns < 0)` clamp.
TransactionSlicesUnclamped(slices, state, is_stop, track_id, ts_ns, dur_ns) ==
    IF is_stop /\ state.open
    THEN Scoped(slices, state.start_ts_ns, track_id, StrI2c, BuildTransactionName(state),
                (ts_ns + dur_ns) - state.start_ts_ns, TransactionArgs(state))
    ELSE slices

\* A stop branch whose test is inverted: `if (!state->open)`.
TransactionSlicesWhenClosed(slices, state, is_stop, track_id, ts_ns, dur_ns) ==
    IF is_stop /\ ~state.open
    THEN LET transaction_dur_ns == (ts_ns + dur_ns) - state.start_ts_ns
         IN Scoped(slices, state.start_ts_ns, track_id, StrI2c, BuildTransactionName(state),
                   IF transaction_dur_ns < 0 THEN 0 ELSE transaction_dur_ns, TransactionArgs(state))
    ELSE slices

\* The slices the stop branch adds: the synthesized transaction, when the
\* state found is open.
TransactionSlices(slices, state, is_stop, track_id, ts_ns, dur_ns) ==
    IF is_stop /\ state.open
    THEN LET transaction_dur_ns == (ts_ns + dur_ns) - state.start_ts_ns
         IN Scoped(slices, state.start_ts_ns, track_id, StrI2c, BuildTransactionName(state),
                   IF transaction_dur_ns < 0 THEN 0 ELSE transaction_dur_ns, TransactionArgs(state))
    ELSE slices

\* A lookup in track_ids_ that never finds a handle.
TrackCachedNever(m, analyzer) == FALSE

\* A failing row that also drops the transaction states.
RowFailForgetting(m, msg, isoob, entry) ==
    [m EXCEPT !.status = msg, !.oob = @ \/ isoob, !.rowLog = Append(@, entry),
              !.transaction_state_ = <<>>]

\* return base::ErrStatus(...) of ParseRow: nothing but the status leaves
\* the call.
RowFail(m, msg, isoob, entry) ==
    [m EXCEPT !.status = msg, !.oob = @ \/ isoob, !.rowLog = Append(@, entry)]

\* An analyzer test that sends every row through the I2C branch.
IsI2cAnyAnalyzer(analyzer_lower) == TRUE

\* if (analyzer_lower == "i2c")
IsI2c(analyzer_lower) == analyzer_lower = StrI2c

\* track_ids_.Find(analyzer) found a handle.
TrackCached(m, analyzer) == analyzer \in DOMAIN m.track_ids_

ParseRow(m, line, ub) ==
    LET fields == ResizeFields(ParseCsvLine(line), Len(m.columns_))
        n == Len(fields)
        analyzer0 == TrimWhitespace(FieldAt(fields, ValueOr0(m.name_col_)))
        analyzer == IF analyzer0 = <<>> THEN StrUnknown ELSE analyzer0
        analyzer_lower == ToLower(analyzer)
        type0 == TrimWhitespace(FieldAt(fields, ValueOr0(m.type_col_)))
        type == IF type0 = <<>> THEN StrEvent ELSE type0
        type_lower == ToLower(type)
        start_str == TrimWhitespace(FieldAt(fields, ValueOr0(m.start_time_col_)))
        start_seconds == StringToDouble(start_str)
        dur_str == TrimWhitespace(FieldAt(fields, ValueOr0(m.duration_col_)))
        dur_value == StringToDouble(dur_str)
        ts_ns == CsvSecondsToNs(start_seconds)
        dur_ns == IF dur_str = <<>> THEN 0 ELSE CsvSecondsToNs(dur_value)
        cached == TrackCached(m, analyzer)
        tracks1 == IF cached THEN m.tracks
                   ELSE InternTrack(m.tracks, "saleae_csv", analyzer, StrTrackPrefix \o analyzer)
        track_id == IF cached THEN m.track_ids_[analyzer] ELSE TrackIdOf(tracks1, "saleae_csv", analyzer)
        track_ids1 == IF cached THEN m.track_ids_ ELSE (analyzer :> track_id) @@ m.track_ids_
        data_value == IF m.data_col_ # None THEN TrimWhitespace(FieldAt(fields, m.data_col_)) ELSE <<>>
        address_value == IF m.address_col_ # None THEN TrimWhitespace(FieldAt(fields, m.address_col_)) ELSE <<>>
        read_value == IF m.read_col_ # None THEN TrimWhitespace(FieldAt(fields, m.read_col_)) ELSE <<>>
        event_name == EventName(m, type, data_value, address_value)
        category == IF type_lower = StrData \/ type_lower = StrAddress THEN type_lower ELSE <<>>
        slices1 == Scoped(m.slices, ts_ns, track_id, category, event_name, dur_ns, RowArgs(m, fields, 0))
        is_i2c == IsI2c(analyzer_lower)
        key == TransactionKey(analyzer, analyzer_lower)
        state0 == IF key \in DOMAIN m.transaction_state_ THEN m.transaction_state_[key]
                  ELSE NewTransactionState
        state1 == I2cStep(m, state0, type_lower, ts_ns, data_value, address_value, read_value)
        slices2 == IF is_i2c
                   THEN TransactionSlices(slices1, state0, type_lower = StrStop, track_id, ts_ns, dur_ns)
                   ELSE slices1
        \* reads of fields[] at an index at or beyond fields.size(), by stage
        oob_head == ValueOr0(m.name_col_) >= n \/ ValueOr0(m.type_col_) >= n \/ ValueOr0(m.start_time_col_) >= n
        oob_dur == ValueOr0(m.duration_col_) >= n
        oob_name == (m.data_col_ # None /\ m.data_col_ >= n)
                    \/ (m.address_col_ # None /\ m.address_col_ >= n
                        /\ (IF m.data_col_ # None /\ data_value # <<>> THEN data_value ELSE type) = type)
        oob_i2c == is_i2c /\ state0.open /\ type_lower = StrAddress
                   /\ ((m.address_col_ # None /\ m.address_col_ >= n) \/ (m.read_col_ # None /\ m.read_col_ >= n))
        base == [analyzer |-> analyzer, analyzer_lower |-> analyzer_lower, type |-> type,
                 type_lower |-> type_lower, ts_ns |-> ts_ns, dur_ns |-> dur_ns,
                 data_value |-> data_value, address_value |-> address_value,
                 read_value |-> read_value, at |-> Len(m.slices),
                 i2c |-> is_i2c, pre |-> state0]
        none == [status |-> "", post |-> state0, raw |-> 0, txn |-> 0, track |-> None, created |-> 0,
                 event_name |-> <<>>]
        fail(msg, isoob) == RowFail(m, msg, isoob, base @@ [none EXCEPT !.status = msg])
    IN IF fields = <<>> THEN [m EXCEPT !.status = "ok"]
       ELSE IF oob_head THEN fail(ub, TRUE)
       ELSE IF start_str = <<>> THEN fail("Saleae CSV row missing start_time", FALSE)
       ELSE IF ~start_seconds.ok THEN fail("Saleae CSV invalid start_time", FALSE)
       ELSE IF oob_dur THEN fail(ub, TRUE)
       ELSE IF dur_str # <<>> /\ ~dur_value.ok THEN fail("Saleae CSV invalid duration", FALSE)
       ELSE IF oob_name
       THEN [m EXCEPT !.status = ub, !.oob = TRUE, !.tracks = tracks1, !.track_ids_ = track_ids1,
                      !.rowLog = Append(@, base @@ [none EXCEPT !.status = ub, !.track = track_id,
                                                                !.created = IF cached THEN 0 ELSE 1])]
       ELSE LET st == IF oob_i2c THEN ub ELSE "ok"
            IN [m EXCEPT !.status = st,
                         !.oob = @ \/ oob_i2c,
                         !.tracks = tracks1,
                         !.track_ids_ = track_ids1,
                         !.slices = IF oob_i2c THEN slices1 ELSE slices2,
                         !.transaction_state_ =
                             IF ~is_i2c THEN @
                             ELSE IF oob_i2c THEN (key :> state0) @@ @
                             ELSE (key :> state1) @@ @,
                         !.rowLog = Append(@, base @@
                             [status |-> st, post |-> IF is_i2c /\ ~oob_i2c THEN state1 ELSE state0,
                              raw |-> Len(slices1) - Len(m.slices),
                              txn |-> IF oob_i2c THEN 0 ELSE Len(slices2) - Len(slices1),
                              track |-> track_id, created |-> IF cached THEN 0 ELSE 1,
                              event_name |-> event_name])]

\* A line dispatch that takes a line for a header whenever it parses as one.
ParseLineHeaderAgain(m, text, ub) ==
    LET line == IF text # <<>> /\ text[Len(text)] = CR THEN SubSeq(text, 1, Len(text) - 1) ELSE text
        header == ParseHeader(m, line)
    IN IF TrimWhitespace(line) = <<>> THEN [m EXCEPT !.status = "ok"]
       ELSE IF ~m.header_parsed_ \/ header.status = "ok" THEN header
       ELSE ParseRow(m, line, ub)

ParseLine(m, text, ub) ==
    LET line == IF text # <<>> /\ text[Len(text)] = CR THEN SubSeq(text, 1, Len(text) - 1) ELSE text
    IN IF TrimWhitespace(line) = <<>> THEN [m EXCEPT !.status = "ok"]
       ELSE IF ~m.header_parsed_ THEN ParseHeader(m, line)
       ELSE ParseRow(m, line, ub)

\* it.MaybeFindAndRead('\n'): the 1-based index of the first '\n' of the
\* unconsumed bytes, 0 when there is none.
RECURSIVE FindNewline(_, _)
FindNewline(bytes, i) ==
    IF i > Len(bytes) THEN 0
    ELSE IF bytes[i] = LF THEN i
    ELSE FindNewline(bytes, i + 1)

\* The for (;;) of Parse: take a line, PopFrontUntil past its '\n', ParseLine.
RECURSIVE ParseLines(_, _)
ParseLines(m, ub) ==
    LET at == FindNewline(m.reader_, 1)
        text == SubSeq(m.reader_, 1, at - 1)
        r == ParseLine([m EXCEPT !.reader_ = SubSeq(@, at + 1, Len(@))], text, ub)
    IN IF at = 0 THEN [m EXCEPT !.status = "ok"]
       ELSE IF r.status # "ok" THEN r
       ELSE ParseLines(r, ub)

\* Parse(blob): reader_.PushBack(blob), then the line loop.
CsvParse(m, blob, ub) == ParseLines([m EXCEPT !.reader_ = @ \o blob], ub)

\* An end of file that drops the unread residual.
CsvNotifyEndOfFileDrop(m, ub) == [m EXCEPT !.reader_ = <<>>, !.status = "ok"]

CsvNotifyEndOfFile(m, ub) ==
    IF Len(m.reader_) = 0 THEN [m EXCEPT !.status = "ok"]
    ELSE ParseLine([m EXCEPT !.reader_ = <<>>], m.reader_, ub)

\* --------------------------------------------------------- CSV inputs
\* Header lines.
\* name,type,start_time,duration,data,address,read
HdrFull == <<110, 97, 109, 101, 44, 116, 121, 112, 101, 44, 115, 116, 97, 114, 116, 95, 116, 105, 109, 101, 44, 100, 117, 114, 97, 116, 105, 111, 110, 44, 100, 97, 116, 97, 44, 97, 100, 100, 114, 101, 115, 115, 44, 114, 101, 97, 100>>
\* name,type,start_time,duration,data,ack,address,read
HdrTest == <<110, 97, 109, 101, 44, 116, 121, 112, 101, 44, 115, 116, 97, 114, 116, 95, 116, 105, 109, 101, 44, 100, 117, 114, 97, 116, 105, 111, 110, 44, 100, 97, 116, 97, 44, 97, 99, 107, 44, 97, 100, 100, 114, 101, 115, 115, 44, 114, 101, 97, 100>>
\* Name,Type,Start Time,Duration
HdrMin == <<78, 97, 109, 101, 44, 84, 121, 112, 101, 44, 83, 116, 97, 114, 116, 32, 84, 105, 109, 101, 44, 68, 117, 114, 97, 116, 105, 111, 110>>
\* name,start_time,duration,data
HdrNoType == <<110, 97, 109, 101, 44, 115, 116, 97, 114, 116, 95, 116, 105, 109, 101, 44, 100, 117, 114, 97, 116, 105, 111, 110, 44, 100, 97, 116, 97>>
\* EF BB BF name,type,start_time,duration
HdrBom == <<239, 187, 191, 110, 97, 109, 101, 44, 116, 121, 112, 101, 44, 115, 116, 97, 114, 116, 95, 116, 105, 109, 101, 44, 100, 117, 114, 97, 116, 105, 111, 110>>
\* a,b,c,d,e,name
HdrLateName == <<97, 44, 98, 44, 99, 44, 100, 44, 101, 44, 110, 97, 109, 101>>
\* type,start_time,duration
HdrNoName == <<116, 121, 112, 101, 44, 115, 116, 97, 114, 116, 95, 116, 105, 109, 101, 44, 100, 117, 114, 97, 116, 105, 111, 110>>

\* Data rows under HdrFull.
\* I2C,start,0,0
RowStart == <<73, 50, 67, 44, 115, 116, 97, 114, 116, 44, 48, 44, 48>>
\* I2C,start,0.25,0
RowStartLate == <<73, 50, 67, 44, 115, 116, 97, 114, 116, 44, 48, 46, 50, 53, 44, 48>>
\* I2C,address,0.1,0,,0x20,true
RowAddress == <<73, 50, 67, 44, 97, 100, 100, 114, 101, 115, 115, 44, 48, 46, 49, 44, 48, 44, 44, 48, 120, 50, 48, 44, 116, 114, 117, 101>>
\* I2C,data,0.2,0,0x01
RowData == <<73, 50, 67, 44, 100, 97, 116, 97, 44, 48, 46, 50, 44, 48, 44, 48, 120, 48, 49>>
\* I2C,stop,0.3,0.1
RowStop == <<73, 50, 67, 44, 115, 116, 111, 112, 44, 48, 46, 51, 44, 48, 46, 49>>
\* i2c,stop,0.3,0
RowStopLower == <<105, 50, 99, 44, 115, 116, 111, 112, 44, 48, 46, 51, 44, 48>>
\* SPI,stop,0.4,0,A
RowSpiStop == <<83, 80, 73, 44, 115, 116, 111, 112, 44, 48, 46, 52, 44, 48, 44, 65>>
\* I2C,data,bad,0
RowBadTime == <<73, 50, 67, 44, 100, 97, 116, 97, 44, 98, 97, 100, 44, 48>>
\* I2C,data,0.2,0,data,0x20
RowDataIsType == <<73, 50, 67, 44, 100, 97, 116, 97, 44, 48, 46, 50, 44, 48, 44, 100, 97, 116, 97, 44, 48, 120, 50, 48>>
\*   
RowBlank == <<32, 32>>
\* The rows generated files are made of.
RowSet == {RowStart, RowStartLate, RowAddress, RowData, RowStop, RowStopLower, RowBadTime}

\* The rows of SaleaeCsvTraceReaderTest.ParsesCsvRows.
\* "I2C","start",0,0.000000002,,,,
TestRow1 == <<34, 73, 50, 67, 34, 44, 34, 115, 116, 97, 114, 116, 34, 44, 48, 44, 48, 46, 48, 48, 48, 48, 48, 48, 48, 48, 50, 44, 44, 44, 44>>
\* "I2C","address",0.1,0.0000001,,true,0x20,false
TestRow2 == <<34, 73, 50, 67, 34, 44, 34, 97, 100, 100, 114, 101, 115, 115, 34, 44, 48, 46, 49, 44, 48, 46, 48, 48, 48, 48, 48, 48, 49, 44, 44, 116, 114, 117, 101, 44, 48, 120, 50, 48, 44, 102, 97, 108, 115, 101>>
\* "I2C","data",0.2,0.0000001,0x01,true,,
TestRow3 == <<34, 73, 50, 67, 34, 44, 34, 100, 97, 116, 97, 34, 44, 48, 46, 50, 44, 48, 46, 48, 48, 48, 48, 48, 48, 49, 44, 48, 120, 48, 49, 44, 116, 114, 117, 101, 44, 44>>
\* "I2C","data",0.25,0.0000001,0x02,true,,
TestRow4 == <<34, 73, 50, 67, 34, 44, 34, 100, 97, 116, 97, 34, 44, 48, 46, 50, 53, 44, 48, 46, 48, 48, 48, 48, 48, 48, 49, 44, 48, 120, 48, 50, 44, 116, 114, 117, 101, 44, 44>>
\* "I2C","stop",0.3,0.000000002,,,,
TestRow5 == <<34, 73, 50, 67, 34, 44, 34, 115, 116, 111, 112, 34, 44, 48, 46, 51, 44, 48, 46, 48, 48, 48, 48, 48, 48, 48, 48, 50, 44, 44, 44, 44>>
\* "Async Serial","data",0.4,0.1,"A",,,
TestRow6 == <<34, 65, 115, 121, 110, 99, 32, 83, 101, 114, 105, 97, 108, 34, 44, 34, 100, 97, 116, 97, 34, 44, 48, 46, 52, 44, 48, 46, 49, 44, 34, 65, 34, 44, 44, 44>>

\* Further rows of the fixed scenarios.
\* I2C,address,0.1,0,,0x21,false
RowAddressWrite == <<73, 50, 67, 44, 97, 100, 100, 114, 101, 115, 115, 44, 48, 46, 49, 44, 48, 44, 44, 48, 120, 50, 49, 44, 102, 97, 108, 115, 101>>
\* I2C,data,0.25,0,0x02
RowData2 == <<73, 50, 67, 44, 100, 97, 116, 97, 44, 48, 46, 50, 53, 44, 48, 44, 48, 120, 48, 50>>
\* I2C,start,0.5,0
RowStart2 == <<73, 50, 67, 44, 115, 116, 97, 114, 116, 44, 48, 46, 53, 44, 48>>
\* I2C,stop,0.6,0
RowStop2 == <<73, 50, 67, 44, 115, 116, 111, 112, 44, 48, 46, 54, 44, 48>>
\* The rows of a transaction under the analyzer names SPI and I2CX.
StrSPI == <<83, 80, 73>>
StrI2CX == <<73, 50, 67, 88>>
RowAs(analyzer, row) == analyzer \o SubSeq(row, Len(StrI2c) + 1, Len(row))
\* I2C,stop,,0
RowNoTime == <<73, 50, 67, 44, 115, 116, 111, 112, 44, 44, 48>>
\* I2C,stop,0.3,zz
RowBadDuration == <<73, 50, 67, 44, 115, 116, 111, 112, 44, 48, 46, 51, 44, 122, 122>>
\* stop,1,0
RowShort == <<115, 116, 111, 112, 44, 49, 44, 48>>
\* x,y,1,0
RowPlain == <<120, 44, 121, 44, 49, 44, 48>>
\* x,z,2,0
RowPlain2 == <<120, 44, 122, 44, 50, 44, 48>>
\* x,y,bad,0
RowPlainBad == <<120, 44, 121, 44, 98, 97, 100, 44, 48>>
\* "a,b","q""r" ,1, 0.5 
RowQuoted == <<34, 97, 44, 98, 34, 44, 34, 113, 34, 34, 114, 34, 32, 44, 49, 44, 32, 48, 46, 53, 32>>

\* Names the properties compare slices and tracks with.
\* 0x20 W: 0x01 0x02
StrTestTransaction == <<48, 120, 50, 48, 32, 87, 58, 32, 48, 120, 48, 49, 32, 48, 120, 48, 50>>
\* Saleae CSV: I2C
StrTrackI2C == <<83, 97, 108, 101, 97, 101, 32, 67, 83, 86, 58, 32, 73, 50, 67>>
\* Saleae CSV: Async Serial
StrTrackAsync == <<83, 97, 108, 101, 97, 101, 32, 67, 83, 86, 58, 32, 65, 115, 121, 110, 99, 32, 83, 101, 114, 105, 97, 108>>
\* I2C
StrI2C == <<73, 50, 67>>
\* 0x20
Str0x20 == <<48, 120, 50, 48>>

\* Largest number of data rows of a generated CSV file.
MaxRows == 3

Terminated(line) == line \o <<LF>>
RECURSIVE Lines(_)
Lines(rows) == IF rows = <<>> THEN <<>> ELSE Terminated(Head(rows)) \o Lines(Tail(rows))

\* Every sequence of at most MaxRows rows of RowSet under the full header.
GeneratedCsvFiles ==
    {Terminated(HdrFull) \o Lines(rows) : rows \in UNION {[1..k -> RowSet] : k \in 0..MaxRows}}

\* Fixed scenarios, delivered in whole lines.
ScenarioCsvFiles ==
    { \* the unit test's file
      Lines(<<HdrTest, TestRow1, TestRow2, TestRow3, TestRow4, TestRow5, TestRow6>>),
      \* two transactions in a row, the second without address or data
      Lines(<<HdrFull, RowStart, RowAddressWrite, RowData, RowData2, RowStop, RowStart2, RowStop2>>),
      \* a write then a read address in one transaction
      Lines(<<HdrFull, RowStart, RowAddressWrite, RowData, RowAddress, RowData2, RowStop>>),
      \* a start under one spelling, the stop under another
      Lines(<<HdrFull, RowStart, RowAddressWrite, RowData, RowStopLower, RowStop>>),
      \* a second start inside an open transaction
      Lines(<<HdrFull, RowStart, RowAddressWrite, RowData, RowStartLate, RowStop>>),
      \* the header line again as a row
      Lines(<<HdrFull, RowStart, HdrFull, RowStop>>),
      \* a header that fails, then a header without a name column
      Lines(<<HdrLateName, HdrNoName, RowShort>>),
      \* a data value equal to the type, another analyzer, a blank line
      Lines(<<HdrFull, RowStart, RowDataIsType, RowSpiStop, RowBlank, RowStop>>),
      \* rows outside a transaction, then two transactions
      Lines(<<HdrFull, RowData, RowAddress, RowStart, RowAddressWrite, RowData2, RowStop, RowData,
              RowStart2, RowStop2>>),
      \* a stop earlier than its start
      Lines(<<HdrFull, RowStart2, RowData, RowStop>>),
      Lines(<<HdrNoType, RowPlain>>),
      \* the rows of a transaction under other analyzer names
      Lines(<<HdrFull, RowAs(StrSPI, RowStart), RowAs(StrSPI, RowAddress), RowAs(StrSPI, RowData),
              RowAs(StrSPI, RowStop), RowAs(StrI2CX, RowStart), RowStart, RowAs(StrI2CX, RowStop)>>),
      \* stop rows that fail inside an open transaction
      Lines(<<HdrFull, RowStart, RowData, RowNoTime, RowBadDuration, RowStop>>),
      \* a blank line before the header
      Lines(<<RowBlank, HdrMin, RowPlain>>),
      Lines(<<HdrBom, RowPlain, RowPlain2>>),
      Lines(<<HdrMin, RowQuoted>>) }

\* Short files, delivered split at arbitrary byte positions.
SplitCsvFiles ==
    { <<>>,
      <<Space, LF, LF>>,
      Lines(<<HdrMin, RowPlain>>) \o RowPlain2,
      HdrMin \o <<CR, LF>> \o RowPlain \o <<CR, LF>> \o RowQuoted \o <<CR, LF>>,
      Lines(<<HdrMin, RowPlainBad, RowPlain, RowPlain2>>),
      Lines(<<HdrNoType, HdrMin, RowPlain>>) }

\* ------------------------------------------------------ binary inputs
\* IEEE-754 doubles 0.0, 0.5, 1.0, 1.5, 2.0, -1.0 and floats 0.5, 1.0.
F64Zero == <<0, 0, 0, 0, 0, 0, 0, 0>>
F64Half == <<0, 0, 0, 0, 0, 0, 224, 63>>
F64One == <<0, 0, 0, 0, 0, 0, 240, 63>>
F64OneHalf == <<0, 0, 0, 0, 0, 0, 248, 63>>
F64Two == <<0, 0, 0, 0, 0, 0, 0, 64>>
F64MinusOne == <<0, 0, 0, 0, 0, 0, 240, 191>>
F32Half == <<0, 0, 0, 63>>
F32One == <<0, 0, 128, 63>>
\* 64-bit counts 2^61, 2^61 + 1, 2^62, 2^62 + 1 and 2^64 - 1 (-1 as int64).
Count2Pow61 == <<0, 0, 0, 0, 0, 0, 0, 32>>
Count2Pow61Plus1 == <<1, 0, 0, 0, 0, 0, 0, 32>>
Count2Pow62 == <<0, 0, 0, 0, 0, 0, 0, 64>>
Count2Pow62Plus1 == <<1, 0, 0, 0, 0, 0, 0, 64>>
CountAllOnes == <<255, 255, 255, 255, 255, 255, 255, 255>>

RECURSIVE Concat(_)
Concat(seqs) == IF seqs = <<>> THEN <<>> ELSE Head(seqs) \o Concat(Tail(seqs))

\* Transition lists of at most MaxPayload times; one is not sorted.
DigitalPayloads ==
    {p \in {<<>>, <<F64Half>>, <<F64Half, F64One>>, <<F64One, F64Half>>,
            <<F64Half, F64One, F64OneHalf>>, <<F64Half, F64Half, F64One, F64Two>>} : Len(p) <= MaxPayload}

\* A digital chunk: initial_state, the transitions present, the count declared.
DigitalChunkSpecs ==
    {[initial |-> i, times |-> p, declared |-> LE64(Len(p))] : i \in {LE32(0), LE32(1)}, p \in DigitalPayloads}
    \cup {[initial |-> <<0, 1, 0, 0>>, times |-> <<F64Half>>, declared |-> LE64(1)]}
    \cup {[initial |-> LE32(0), times |-> <<F64Half>>, declared |-> c] :
            c \in {LE64(2), Count2Pow61, Count2Pow61Plus1, CountAllOnes}}
    \cup {[initial |-> LE32(1), times |-> <<>>, declared |-> Count2Pow61]}

DigitalChunkV1Bytes(c) == c.initial \o F64One \o F64Zero \o F64Two \o c.declared \o Concat(c.times)
DigitalChunkV0Bytes(c) == c.initial \o F64Zero \o F64Two \o c.declared \o Concat(c.times)

MagicHeader(version, type) == kSaleaeMagic \o LE32(version) \o LE32(type)
LegacyHeader(file_id, version, type) == LE32(file_id) \o LE32(version) \o LE32(type)

\* The chunks multi-chunk files are built of.
FewDigitalChunks ==
    {[initial |-> LE32(0), times |-> <<F64Half, F64One>>, declared |-> LE64(2)],
     [initial |-> LE32(1), times |-> <<F64OneHalf>>, declared |-> LE64(1)],
     [initial |-> LE32(0), times |-> <<F64Half>>, declared |-> LE64(2)]}

ChunkLists(chunks) == UNION {[1..k -> chunks] : k \in 0..MaxChunks}

\* A digital payload (initial state, begin time, transition times) and the
\* three files that carry it with all of its transitions declared.
PayloadV0Bytes(p) == p.initial \o p.begin \o F64Two \o LE64(Len(p.times)) \o Concat(p.times)
PayloadV1Bytes(p) == p.initial \o F64One \o p.begin \o F64Two \o LE64(Len(p.times)) \o Concat(p.times)
Containers == {"legacy_v0", "magic_v0", "magic_v1"}
ContainerFile(container, p) ==
    CASE container = "legacy_v0" -> LegacyHeader(kSaleaeV0FileId, kSaleaeVersion0, kSaleaeDigitalType) \o PayloadV0Bytes(p)
      [] container = "magic_v0" -> MagicHeader(kSaleaeVersion0, kSaleaeDigitalType) \o PayloadV0Bytes(p)
      [] container = "magic_v1" -> MagicHeader(kSaleaeVersion1, kSaleaeDigitalType) \o LE64(1) \o PayloadV1Bytes(p)
LatePayloads ==
    {[initial |-> LE32(1), begin |-> F64Half, times |-> <<F64One, F64OneHalf>>],
     [initial |-> <<0, 0, 1, 0>>, begin |-> F64One, times |-> <<F64OneHalf>>]}
Payloads ==
    {[initial |-> i, begin |-> F64Zero, times |-> p] : i \in {LE32(0), LE32(1)}, p \in DigitalPayloads}
    \cup LatePayloads

DigitalFiles ==
    {ContainerFile(k, p) : k \in Containers, p \in LatePayloads}
    \cup {LegacyHeader(kSaleaeV0FileId, 0, 0) \o DigitalChunkV0Bytes(c) : c \in DigitalChunkSpecs}
    \cup {MagicHeader(0, 0) \o DigitalChunkV0Bytes(c) : c \in DigitalChunkSpecs}
    \cup {MagicHeader(1, 0) \o LE64(1) \o DigitalChunkV1Bytes(c) : c \in DigitalChunkSpecs}
    \cup {MagicHeader(1, 0) \o LE64(Len(l)) \o Concat([i \in 1..Len(l) |-> DigitalChunkV1Bytes(l[i])]) :
            l \in ChunkLists(FewDigitalChunks)}
    \cup {MagicHeader(1, 0) \o n \o DigitalChunkV1Bytes(c) \o <<1, 2, 3>> :
            n \in {LE64(0), LE64(2), CountAllOnes}, c \in {[initial |-> LE32(1), times |-> <<F64Half>>, declared |-> LE64(1)]}}

\* An analog waveform: sample_rate and downsample, the samples present, the
\* count declared.  V1 carries sample_rate as a double, V0 as a uint64.
AnalogPayloads ==
    {p \in {<<>>, <<F32One>>, <<F32One, F32Half>>, <<F32Half, F32One, F32Half>>} : Len(p) <= MaxPayload}

AnalogWaveSpecs ==
    {[rate |-> 2, downsample |-> LE64(1), samples |-> p, declared |-> LE64(Len(p))] : p \in AnalogPayloads}
    \cup {[rate |-> r, downsample |-> d, samples |-> <<F32One>>, declared |-> LE64(1)] :
            r \in {0, 2}, d \in {LE64(0), LE64(1), CountAllOnes}}
    \cup {[rate |-> 2, downsample |-> LE64(1), samples |-> <<F32One>>, declared |-> c] :
            c \in {LE64(2), Count2Pow62, Count2Pow62Plus1, CountAllOnes}}

AnalogWaveV1Bytes(w) ==
    F64Half \o F64Zero \o (IF w.rate = 0 THEN F64Zero ELSE F64Two) \o w.downsample \o w.declared
    \o Concat(w.samples)
AnalogChunkV0Bytes(w) == F64Half \o LE64(w.rate) \o w.downsample \o w.declared \o Concat(w.samples)

FewAnalogWaves ==
    {[rate |-> 2, downsample |-> LE64(1), samples |-> <<F32One, F32Half>>, declared |-> LE64(2)],
     [rate |-> 2, downsample |-> LE64(1), samples |-> <<>>, declared |-> LE64(0)],
     [rate |-> 0, downsample |-> LE64(1), samples |-> <<F32One>>, declared |-> LE64(1)]}

AnalogChunkV1Bytes(l) == LE64(Len(l)) \o Concat([i \in 1..Len(l) |-> AnalogWaveV1Bytes(l[i])])

\* Version 1 waveforms with a sample_rate that is a NaN or negative.
F64NaN == <<0, 0, 0, 0, 0, 0, 248, 127>>
RateWaveV1Bytes(rate, samples) ==
    F64Half \o F64Zero \o rate \o LE64(1) \o LE64(Len(samples)) \o Concat(samples)
OddRateFiles ==
    {MagicHeader(1, 1) \o LE64(1) \o LE64(Len(l)) \o Concat(l) :
        l \in {<<RateWaveV1Bytes(F64NaN, <<F32One>>)>>,
               <<RateWaveV1Bytes(F64NaN, <<F32One, F32Half>>)>>,
               <<RateWaveV1Bytes(F64MinusOne, <<F32One>>)>>,
               <<RateWaveV1Bytes(F64Two, <<F32One>>), RateWaveV1Bytes(F64NaN, <<F32Half>>)>>}}

AnalogFiles ==
    OddRateFiles
    \cup {LegacyHeader(kSaleaeV0FileId, 0, 1) \o AnalogChunkV0Bytes(w) : w \in AnalogWaveSpecs}
    \cup {MagicHeader(0, 1) \o AnalogChunkV0Bytes(w) : w \in AnalogWaveSpecs}
    \cup {MagicHeader(1, 1) \o LE64(1) \o AnalogChunkV1Bytes(<<w>>) : w \in AnalogWaveSpecs}
    \cup {MagicHeader(1, 1) \o LE64(1) \o AnalogChunkV1Bytes(l) : l \in ChunkLists(FewAnalogWaves)}
    \cup {MagicHeader(1, 1) \o LE64(2) \o AnalogChunkV1Bytes(l) \o AnalogChunkV1Bytes(<<>>) \o <<1, 2, 3>> :
            l \in ChunkLists(FewAnalogWaves)}
    \cup {MagicHeader(1, 1) \o LE64(1) \o F64MinusOne
          \o AnalogWaveV1Bytes([rate |-> 2, downsample |-> LE64(1), samples |-> <<>>, declared |-> LE64(0)])}

\* Headers no decoder accepts.
BadHeaderFiles ==
    {h \o DigitalChunkV0Bytes([initial |-> LE32(1), times |-> <<F64Half>>, declared |-> LE64(1)]) :
        h \in {MagicHeader(0, 2), MagicHeader(1, 2), MagicHeader(2, 0), MagicHeader(2, 1),
               LegacyHeader(kSaleaeV0FileId, 0, 2), LegacyHeader(kSaleaeV0FileId, 1, 0),
               LegacyHeader(kSaleaeV0FileId + 1, 0, 0), LegacyHeader(0, 0, 1)}}

\* Files of one chunk, in each container, with bytes after the chunk.
TrailingFiles ==
    {ContainerFile(k, [initial |-> LE32(1), begin |-> F64Half, times |-> <<F64One>>]) \o <<1, 2, 3>> :
        k \in Containers}
    \cup {LegacyHeader(kSaleaeV0FileId, 0, 1)
          \o AnalogChunkV0Bytes([rate |-> 2, downsample |-> LE64(1), samples |-> <<F32One>>, declared |-> LE64(1)])
          \o <<1, 2, 3>>}

BinaryFiles == DigitalFiles \cup AnalogFiles \cup BadHeaderFiles \cup TrailingFiles

\* ------------------------------------------------------ state machine
\* Blob sizes the driver hands to the binary reader (besides "all the rest").
BlobSizes == {0, 1, 12, 40}

\* The files a run may deliver: the reader constructed for it, the bytes, and
\* where the driver may cut them into blobs.
InputFiles ==
    {[kind |-> "binary", mode |-> "blocks", bytes |-> f] : f \in BinaryFiles \cup {<<>>}}
    \cup {[kind |-> "csv", mode |-> "lines", bytes |-> f] : f \in GeneratedCsvFiles \cup ScenarioCsvFiles}
    \cup {[kind |-> "csv", mode |-> "bytes", bytes |-> f] : f \in SplitCsvFiles}

\* The outcomes of undefined behaviour (a read beyond a vector's size): the
\* process dies, or the call returns having used whatever the bytes were.
UBOutcomes == {"crash", "garbage"}

VARIABLES
    kind,       \* which reader was constructed: "binary" or "csv"
    mode,       \* where the driver cuts the file into blobs
    pending,    \* bytes of the file not delivered yet
    fed,        \* bytes delivered so far, in order
    calls,      \* number of Parse calls made
    finished,   \* NotifyEndOfFile has been called
    bin,        \* members of SaleaeBinaryTraceReader
    csv,        \* members of SaleaeCsvTraceReader
    storage,    \* the tables of the context: tracks, counters, slices
    status,     \* the status the last call returned
    oob,        \* a read beyond a vector's size has happened
    chunkLog,   \* one entry per chunk decoder call
    waveLog,    \* one entry per analog waveform decoded
    rowLog,     \* one entry per ParseRow call that got past the field split
    errorMark   \* number of events in storage when the first error was returned

vars == <<kind, mode, pending, fed, calls, finished, bin, csv, storage, status, oob,
          chunkLog, waveLog, rowLog, errorMark>>

NewBinaryReader == [buffer_ |-> <<>>, track_id_ |-> None, data_type_ |-> "kDigital"]

NewCsvReader ==
    [reader_ |-> <<>>, header_parsed_ |-> FALSE, columns_ |-> <<>>,
     name_col_ |-> None, type_col_ |-> None, start_time_col_ |-> None, duration_col_ |-> None,
     data_col_ |-> None, address_col_ |-> None, read_col_ |-> None,
     track_ids_ |-> <<>>, transaction_state_ |-> <<>>]

NewStorage == [tracks |-> <<>>, counters |-> <<>>, slices |-> <<>>]

\* The machine the reader operators work on, made of the current state.
MachineOf(b, c, s, st, o, cl, wl, rl) ==
    b @@ c @@ s @@ [pos |-> 0, status |-> st, oob |-> o, chunkLog |-> cl, waveLog |-> wl, rowLog |-> rl]
Machine == MachineOf(bin, csv, storage, status, oob, chunkLog, waveLog, rowLog)
NewMachine == MachineOf(NewBinaryReader, NewCsvReader, NewStorage, "ok", FALSE, <<>>, <<>>, <<>>)

Project(r, rec) == [f \in DOMAIN rec |-> r[f]]
Events(s) == Len(s.counters) + Len(s.slices)
IsError(st) == st # "ok" /\ st \notin UBOutcomes

Init ==
    \E f \in InputFiles :
        /\ kind = f.kind
        /\ mode = f.mode
        /\ pending = f.bytes
        /\ fed = <<>>
        /\ calls = 0
        /\ finished = FALSE
        /\ bin = NewBinaryReader
        /\ csv = NewCsvReader
        /\ storage = NewStorage
        /\ status = "ok"
        /\ oob = FALSE
        /\ chunkLog = <<>>
        /\ waveLog = <<>>
        /\ rowLog = <<>>
        /\ errorMark = None

\* The state after a call that left the machine r.
Commit(r) ==
    /\ bin' = Project(r, bin)
    /\ csv' = Project(r, csv)
    /\ storage' = Project(r, storage)
    /\ status' = r.status
    /\ oob' = r.oob
    /\ chunkLog' = r.chunkLog
    /\ waveLog' = r.waveLog
    /\ rowLog' = r.rowLog
    /\ errorMark' = IF errorMark = None /\ IsError(r.status) THEN Events(r) ELSE errorMark

\* The sizes of the next blob the driver may deliver.
FeedSizes ==
    {n \in 0..Len(pending) :
        \/ mode = "bytes"
        \/ n = Len(pending)
        \/ mode = "lines" /\ (n = 0 \/ pending[n] = LF)
        \/ mode = "blocks" /\ n \in BlobSizes}

Deliver(n) ==
    /\ pending' = SubSeq(pending, n + 1, Len(pending))
    /\ fed' = fed \o SubSeq(pending, 1, n)
    /\ calls' = calls + 1
    /\ UNCHANGED <<kind, mode, finished>>

\* The driver is done with a reader once it has finished it or the process
\* has met undefined behaviour; it makes at most MaxFeeds Parse calls.
CanCall == ~finished /\ ~oob

BinaryFeed(n) ==
    /\ kind = "binary" /\ CanCall /\ calls < MaxFeeds
    /\ Commit(BinParse(Machine, SubSeq(pending, 1, n)))
    /\ Deliver(n)

BinaryFinish(ub) ==
    /\ kind = "binary" /\ CanCall
    /\ Commit(BinNotifyEndOfFile(Machine, ub))
    /\ finished' = TRUE
    /\ UNCHANGED <<kind, mode, pending, fed, calls>>

CsvFeed(n, ub) ==
    /\ kind = "csv" /\ CanCall /\ calls < MaxFeeds
    /\ Commit(CsvParse(Machine, SubSeq(pending, 1, n), ub))
    /\ Deliver(n)

CsvFinish(ub) ==
    /\ kind = "csv" /\ CanCall
    /\ Commit(CsvNotifyEndOfFile(Machine, ub))
    /\ finished' = TRUE
    /\ UNCHANGED <<kind, mode, pending, fed, calls>>

Next ==
    \/ \E n \in FeedSizes : BinaryFeed(n)
    \/ \E ub \in UBOutcomes : BinaryFinish(ub)
    \/ \E n \in FeedSizes, ub \in UBOutcomes : CsvFeed(n, ub)
    \/ \E ub \in UBOutcomes : CsvFinish(ub)

Spec == Init /\ [][Next]_vars

\* ------------------------------------------------------------ properties
DigitalDecoders == {"digital_v1", "digital_v0"}
AnalogDecoders == {"analog_v1", "analog_v0"}
TruncationErrors ==
    {"Saleae digital transitions truncated", "Saleae digital v0 transitions truncated",
     "Saleae analog v1 samples truncated", "Saleae analog v0 samples truncated"}
\* Errors of the tests a decoder makes before its fit test.
CountErrors ==
    {"Saleae digital transition count invalid", "Saleae analog v1 sample rate invalid",
     "Saleae analog v1 downsample invalid", "Saleae analog v0 sample rate invalid",
     "Saleae analog v0 downsample invalid"}

\* The entries of the four decoders that read a chunk (waveform) header whose
\* declared count exceeds the values the rest of the buffer holds.
DoesNotFit(e) == e.headerRead /\ U64Less(LE64(e.avail), e.declared)
OversizedEntries ==
    {chunkLog[i] : i \in {j \in DOMAIN chunkLog : chunkLog[j].decoder \in DigitalDecoders /\ DoesNotFit(chunkLog[j])}}
    \cup {waveLog[i] : i \in {j \in DOMAIN waveLog : DoesNotFit(waveLog[j])}}

\* C1: whenever the count declared by a chunk or waveform header does not
\* fit in the bytes left after that header, the decoder fails with its
\* truncation error (or with the error of a test it makes earlier) without
\* emitting a sample, and the binary reader never reads a byte at an offset at
\* or beyond the buffer length.
C1_TruncatedCountsFail ==
    kind = "binary" =>
        /\ ~oob
        /\ \A e \in OversizedEntries :
            e.status \in TruncationErrors \cup CountErrors /\ e.emitted = 0

\* One feed of all the bytes followed by finish, on a fresh reader: the
\* machine it leaves and whether one of the two calls returned an error.
OneShot(k, bytes, ub) ==
    IF k = "binary"
    THEN LET r == BinNotifyEndOfFile(BinParse(NewMachine, bytes), ub)
         IN [final |-> r, failed |-> IsError(r.status)]
    ELSE LET p == CsvParse(NewMachine, bytes, ub)
             r == IF p.oob THEN p ELSE CsvNotifyEndOfFile(p, ub)
         IN [final |-> r, failed |-> IsError(p.status) \/ IsError(r.status)]

\* C2: when a run has delivered bytes in any number of feed calls and then
\* finished, storage holds exactly the tracks, counter samples and slices that
\* one feed call of the same bytes followed by finish leaves, and the run
\* met an error iff the single-feed run does.
C2_ChunkingInvariance ==
    finished /\ ~oob =>
        \A ub \in UBOutcomes :
            LET one == OneShot(kind, fed, ub)
            IN ~one.final.oob =>
                /\ storage = Project(one.final, storage)
                /\ (errorMark # None) = one.failed

RECURSIVE SumCreated(_)
SumCreated(log) == IF log = <<>> THEN 0 ELSE Head(log).created + SumCreated(Tail(log))

\* C3: while decoding one binary file the reader calls CreateTrack at most
\* once, whatever the number of chunks, and at most one track exists.
C3_OneCreateTrackPerFile ==
    kind = "binary" => SumCreated(chunkLog) <= 1 /\ Len(storage.tracks) <= 1

\* Rows parsed without error whose start times do not decrease in file order.
RowsWellFormed ==
    /\ errorMark = None /\ ~oob
    /\ \A i \in DOMAIN rowLog : rowLog[i].status = "ok"
    /\ \A i, j \in DOMAIN rowLog : i < j => rowLog[i].ts_ns <= rowLog[j].ts_ns

\* C4: for a CSV file parsed without error whose rows' start times are
\* non-decreasing in file order, the timestamps of the slices emitted on each
\* track, the synthesized transaction slices included, are non-decreasing in
\* emission order.
C4_TimestampsNonDecreasing ==
    kind = "csv" /\ RowsWellFormed =>
        \A i, j \in DOMAIN storage.slices :
            i < j /\ storage.slices[i].track = storage.slices[j].track
                => storage.slices[i].ts <= storage.slices[j].ts

\* The file of SaleaeCsvTraceReaderTest.ParsesCsvRows.
TestCsvFile == Lines(<<HdrTest, TestRow1, TestRow2, TestRow3, TestRow4, TestRow5, TestRow6>>)

\* Rows parsed without error, and among them the I2C stop rows that found
\* their analyzer's transaction open.
OkRows == {i \in DOMAIN rowLog : rowLog[i].status = "ok"}
ClosingStops ==
    {i \in OkRows : rowLog[i].i2c /\ rowLog[i].type_lower = StrStop /\ rowLog[i].pre.open}
TransactionSliceIds ==
    {i \in DOMAIN storage.slices :
        storage.slices[i].name = StrTestTransaction /\ storage.slices[i].category = StrI2c}

\* C5: the slice table holds one raw slice per row parsed without error plus
\* one synthesized slice per I2C stop row that found its transaction open,
\* and nothing else; once the unit test's file has been delivered whole there are
\* exactly 7 slices, one of them named "0x20 W: 0x01 0x02" with category
\* "i2c".
C5_SlicesPerRow ==
    kind = "csv" /\ ~oob =>
        /\ Len(storage.slices) = Cardinality(OkRows) + Cardinality(ClosingStops)
        /\ \A i \in OkRows :
            rowLog[i].raw = 1 /\ rowLog[i].txn = (IF i \in ClosingStops THEN 1 ELSE 0)
        /\ fed = TestCsvFile =>
            /\ errorMark = None
            /\ Len(storage.slices) = 7
            /\ Cardinality(TransactionSliceIds) = 1

C5_Witness ==
    /\ kind = "csv" /\ finished /\ fed = TestCsvFile
    /\ Len(storage.slices) = 7
    /\ Cardinality(ClosingStops) = 1

\* The counter samples of the chunk of log entry e, in emission order.
ChunkSamples(e) == SubSeq(storage.counters, e.offset + 1, e.offset + e.emitted)
ValidDigitalChunks ==
    {i \in DOMAIN chunkLog : chunkLog[i].decoder \in DigitalDecoders /\ chunkLog[i].status = "ok"}

\* C6: a digital chunk decoded without error that declares k transitions
\* emits exactly k + 1 counter samples; the first carries the begin time and
\* value 1 iff initial_state is non-zero, the (n+1)-th carries the n-th
\* transition time of the file and 1 minus the value before it.
C6_DigitalSamplesAlternate ==
    kind = "binary" =>
        \A i \in ValidDigitalChunks :
            LET e == chunkLog[i]
                k == U64ToNat(e.declared)
                samples == ChunkSamples(e)
            IN /\ e.emitted = k + 1
               /\ Len(samples) = k + 1
               /\ samples[1].value = (IF e.initial # <<0, 0, 0, 0>> THEN 1 ELSE 0)
               /\ samples[1].ts = BinSecondsToNs(F64Sixteenths(e.begin))
               /\ \A n \in 1..k :
                    /\ samples[n + 1].value = 1 - samples[n].value
                    /\ samples[n + 1].ts =
                        BinSecondsToNs(F64Sixteenths(Field(bin.buffer_, e.at + (n - 1) * SizeofDouble, SizeofDouble)))

C6_Witness ==
    /\ kind = "binary" /\ finished
    /\ \E i \in ValidDigitalChunks :
        /\ chunkLog[i].declared = LE64(2)
        /\ chunkLog[i].initial # <<0, 0, 0, 0>>
        /\ chunkLog[i].emitted = 3

\* C7: once a call on a CSV reader has returned a header or row error, no
\* later call on that reader adds an event.
C7_NothingAfterError ==
    kind = "csv" /\ errorMark # None => Events(storage) = errorMark

\* A transaction of the I2C analyzer (under any spelling) is open before row
\* i: some earlier I2C start row has no I2C stop row after it before i.
OpenBefore(i) ==
    \E j \in OkRows :
        /\ j < i /\ rowLog[j].i2c /\ rowLog[j].type_lower = StrStart
        /\ \A k \in OkRows : j < k /\ k < i /\ rowLog[k].i2c => rowLog[k].type_lower # StrStop

\* C8: the transaction state is shared by the spellings of the analyzer
\* name: an I2C stop row that follows an I2C start row (with no stop between
\* them) synthesizes one transaction slice, whatever the letter case of the
\* two names.
C8_StateKeyedByLowerCase ==
    kind = "csv" /\ ~oob =>
        \A i \in OkRows :
            rowLog[i].i2c /\ rowLog[i].type_lower = StrStop /\ OpenBefore(i) => rowLog[i].txn = 1

\* C9: the raw slice of a row is named by the trimmed data value when there
\* is a data column and the value is not empty, else by the trimmed address
\* value when there is an address column and the value is not empty, else by
\* the type text.
C9_EventNamePrefersData ==
    kind = "csv" /\ ~oob =>
        \A i \in OkRows :
            rowLog[i].event_name =
                IF csv.data_col_ # None /\ rowLog[i].data_value # <<>> THEN rowLog[i].data_value
                ELSE IF csv.address_col_ # None /\ rowLog[i].address_value # <<>> THEN rowLog[i].address_value
                ELSE rowLog[i].type

StartRows == {i \in OkRows : rowLog[i].i2c /\ rowLog[i].type_lower = StrStart}

\* C10: an I2C start row that finds its analyzer's transaction open leaves
\* the transaction state as it was and emits only its raw slice; one that
\* finds it closed opens it with start_ts_ns the row's timestamp, no address,
\* read = false and empty byte lists.  The reader holds the state the last
\* row left.
C10_StartOpensOnce ==
    kind = "csv" /\ ~oob =>
        /\ \A i \in StartRows :
            /\ rowLog[i].raw = 1 /\ rowLog[i].txn = 0
            /\ rowLog[i].post.open
            /\ IF rowLog[i].pre.open
               THEN rowLog[i].post = rowLog[i].pre
               ELSE rowLog[i].post = [open |-> TRUE, start_ts_ns |-> rowLog[i].ts_ns, address |-> <<>>,
                                      read |-> FALSE, write_bytes |-> <<>>, read_bytes |-> <<>>]
        /\ rowLog # <<>> /\ Len(rowLog) \in StartRows =>
            csv.transaction_state_[rowLog[Len(rowLog)].analyzer] = rowLog[Len(rowLog)].post

C10_Witness ==
    /\ kind = "csv"
    /\ \E i, j \in StartRows :
        /\ ~rowLog[i].pre.open
        /\ rowLog[j].pre.open /\ rowLog[j].pre.address # <<>>
        /\ rowLog[j].ts_ns # rowLog[j].pre.start_ts_ns

\* The errors ParseRow returns for a row's start_time and duration fields.
RowFieldErrors ==
    {"Saleae CSV row missing start_time", "Saleae CSV invalid start_time", "Saleae CSV invalid duration"}

\* The history of row i's analyzer (the name as written): its last I2C stop
\* row before i (0 when there is none), the I2C start rows since, whether one
\* of them has opened a transaction, and the start row that opened it.
SameAnalyzer(i, j) == rowLog[i].analyzer = rowLog[j].analyzer
StopsBefore(i) ==
    {k \in OkRows : k < i /\ rowLog[k].i2c /\ rowLog[k].type_lower = StrStop /\ SameAnalyzer(k, i)}
LastStopBefore(i) ==
    IF StopsBefore(i) = {} THEN 0 ELSE CHOOSE k \in StopsBefore(i) : \A l \in StopsBefore(i) : l <= k
StartsSince(i) == {j \in StartRows : LastStopBefore(i) < j /\ j < i /\ SameAnalyzer(j, i)}
OpenByHistory(i) == StartsSince(i) # {}
Opener(i) == CHOOSE j \in StartsSince(i) : \A l \in StartsSince(i) : j <= l
StopRows == {i \in OkRows : rowLog[i].i2c /\ rowLog[i].type_lower = StrStop}

\* C11: an I2C stop row whose analyzer has had no start row since the
\* beginning of the file or since its last stop row emits its raw slice and
\* no transaction slice, finds and leaves the state closed, and returns
\* success: no row fails for another reason than its start_time or duration
\* field.
C11_StopWhileClosed ==
    kind = "csv" /\ ~oob =>
        /\ \A i \in DOMAIN rowLog : rowLog[i].status \in {"ok"} \cup RowFieldErrors
        /\ \A i \in StopRows :
            ~OpenByHistory(i) =>
                /\ rowLog[i].raw = 1 /\ rowLog[i].txn = 0
                /\ Len(storage.slices) >= rowLog[i].at + 1
                /\ ~rowLog[i].pre.open
                /\ rowLog[i].post = rowLog[i].pre
                /\ i = Len(rowLog) => ~csv.transaction_state_[rowLog[i].analyzer].open

C11_Witness ==
    /\ kind = "csv" /\ ~oob
    /\ \E i \in StopRows : ~OpenByHistory(i) /\ LastStopBefore(i) > 0 /\ i = Len(rowLog)
    /\ \E i \in StopRows : ~OpenByHistory(i) /\ LastStopBefore(i) = 0

\* The I2C stop rows that close a transaction, and the rows of the same
\* analyzer between the start row that opened it and the stop row i.
ClosingByHistory == {i \in StopRows : OpenByHistory(i)}
Between(i) == {k \in OkRows : Opener(i) < k /\ k < i /\ rowLog[k].i2c /\ SameAnalyzer(k, i)}
AddressesBetween(i) == {rowLog[k].address_value : k \in {l \in Between(i) : rowLog[l].type_lower = StrAddress}}
DataBetween(i) ==
    {k \in Between(i) : rowLog[k].type_lower = StrData /\ rowLog[k].data_value # <<>>}
\* The address values among the arguments of slice n.
AddressArgs(n) ==
    {storage.slices[n].args[a].value :
        a \in {b \in DOMAIN storage.slices[n].args : storage.slices[n].args[b].key = StrAddress}}
CollectingRows == {i \in OkRows : rowLog[i].i2c /\ rowLog[i].type_lower \in {StrAddress, StrData}}

\* C12: an address or data row whose analyzer has no open transaction leaves
\* the state as it was, and the address and bytes a transaction slice reports
\* are values of address and data rows of its analyzer between the start row
\* that opened the transaction and the stop row that closed it.
C12_TransactionCollectsOwnRows ==
    kind = "csv" /\ ~oob =>
        /\ \A i \in CollectingRows :
            ~OpenByHistory(i) => ~rowLog[i].pre.open /\ rowLog[i].post = rowLog[i].pre
        /\ \A i \in ClosingByHistory :
            LET state == rowLog[i].pre
                bytes == state.write_bytes \o state.read_bytes
            IN /\ rowLog[i].txn = 1
               /\ state.address \in AddressesBetween(i) \cup {<<>>}
               /\ AddressArgs(rowLog[i].at + 2) \subseteq AddressesBetween(i) \ {<<>>}
               /\ state.address # <<>> => AddressArgs(rowLog[i].at + 2) = {state.address}
               /\ \A n \in DOMAIN bytes : \E k \in DataBetween(i) : bytes[n] = rowLog[k].data_value
               /\ Len(bytes) = Cardinality(DataBetween(i))

C12_Witness ==
    /\ kind = "csv" /\ ~oob
    /\ \E i \in CollectingRows : ~OpenByHistory(i) /\ rowLog[i].data_value # <<>>
    /\ \E i, j \in ClosingByHistory :
        /\ i < j
        /\ rowLog[i].pre.address # <<>> /\ rowLog[i].pre.write_bytes # <<>>
        /\ rowLog[j].pre.address = <<>> /\ rowLog[j].pre.write_bytes = <<>>

\* C13: the slice synthesized by a stop row that closes a transaction starts
\* at the timestamp of the start row that opened it, lasts from there to the
\* stop row's end (its timestamp plus its duration) or 0 when that is
\* earlier, has category "i2c" and lies on the row's track; after the row the
\* analyzer's transaction is closed.
C13_TransactionSliceSpan ==
    kind = "csv" /\ ~oob =>
        \A i \in ClosingByHistory :
            LET row == rowLog[i]
                start_ts_ns == rowLog[Opener(i)].ts_ns
                span == (row.ts_ns + row.dur_ns) - start_ts_ns
                slice == storage.slices[row.at + 2]
            IN /\ row.txn = 1
               /\ Len(storage.slices) >= row.at + 2
               /\ row.pre.open /\ row.pre.start_ts_ns = start_ts_ns
               /\ slice.ts = start_ts_ns
               /\ slice.dur = (IF span < 0 THEN 0 ELSE span)
               /\ slice.category = StrI2c
               /\ slice.track = row.track
               /\ ~row.post.open
               /\ i = Len(rowLog) => ~csv.transaction_state_[row.analyzer].open

C13_Witness ==
    /\ kind = "csv" /\ ~oob
    /\ \E i \in ClosingByHistory :
        /\ rowLog[i].ts_ns + rowLog[i].dur_ns < rowLog[Opener(i)].ts_ns
        /\ storage.slices[rowLog[i].at + 2].dur = 0
        /\ storage.slices[rowLog[i].at + 2].ts > rowLog[i].ts_ns

\* What the rows k..i-1 of a transaction add to acc = [read, write_bytes,
\* read_bytes]: an address row with a true/false read field sets the read
\* flag, a data row with a value appends it to the list the flag selects.
RECURSIVE Replay(_, _, _)
Replay(k, i, acc) ==
    IF k >= i THEN acc
    ELSE IF k \notin Between(i) THEN Replay(k + 1, i, acc)
    ELSE LET row == rowLog[k]
             flag == ToLower(row.read_value)
         IN IF row.type_lower = StrAddress /\ flag \in {StrTrue, StrFalse}
            THEN Replay(k + 1, i, [acc EXCEPT !.read = (flag = StrTrue)])
            ELSE IF row.type_lower = StrData /\ row.data_value # <<>>
            THEN IF acc.read
                 THEN Replay(k + 1, i, [acc EXCEPT !.read_bytes = Append(@, row.data_value)])
                 ELSE Replay(k + 1, i, [acc EXCEPT !.write_bytes = Append(@, row.data_value)])
            ELSE Replay(k + 1, i, acc)
Collected(i) == Replay(Opener(i) + 1, i, [read |-> FALSE, write_bytes |-> <<>>, read_bytes |-> <<>>])

\* The name of a transaction with the given address and byte lists.
RECURSIVE SpacePrefixed(_)
SpacePrefixed(list) ==
    IF list = <<>> THEN <<>> ELSE <<Space>> \o Head(list) \o SpacePrefixed(Tail(list))
ExpectedName(address, writes, reads) ==
    (IF address = <<>> THEN StrI2c ELSE address)
    \o (IF writes = <<>> THEN <<>> ELSE StrW \o SpacePrefixed(writes))
    \o (IF reads = <<>> THEN <<>> ELSE StrR \o SpacePrefixed(reads))

DataRows == {i \in OkRows : rowLog[i].i2c /\ rowLog[i].type_lower = StrData /\ rowLog[i].data_value # <<>>}

\* C14: in an open transaction a data row with a value appends it to
\* read_bytes when the read flag is set and to write_bytes otherwise, the
\* flag being that of the last address row of the transaction with a
\* true/false read field (false without one); the transaction slice is named
\* by the address (or "i2c"), then " W:" and the write bytes, then " R:" and
\* the read bytes, in arrival order, a part being left out when its list is
\* empty.
C14_BytesByReadFlag ==
    kind = "csv" /\ ~oob =>
        /\ \A i \in DataRows :
            OpenByHistory(i) =>
                LET pre == rowLog[i].pre
                IN /\ pre.read = Replay(Opener(i) + 1, i, [read |-> FALSE, write_bytes |-> <<>>, read_bytes |-> <<>>]).read
                   /\ rowLog[i].post =
                        IF pre.read THEN [pre EXCEPT !.read_bytes = Append(@, rowLog[i].data_value)]
                        ELSE [pre EXCEPT !.write_bytes = Append(@, rowLog[i].data_value)]
        /\ \A i \in ClosingByHistory :
            /\ rowLog[i].pre.write_bytes = Collected(i).write_bytes
            /\ rowLog[i].pre.read_bytes = Collected(i).read_bytes
            /\ storage.slices[rowLog[i].at + 2].name =
                    ExpectedName(rowLog[i].pre.address, Collected(i).write_bytes, Collected(i).read_bytes)

C14_Witness ==
    /\ kind = "csv" /\ ~oob
    /\ \E i \in ClosingByHistory :
        /\ rowLog[i].pre.address # <<>>
        /\ rowLog[i].pre.write_bytes # <<>>
        /\ rowLog[i].pre.read_bytes # <<>>
        /\ Len(storage.slices[rowLog[i].at + 2].name) > Len(rowLog[i].pre.address)

\* The three header shapes read off the delivered bytes: the magic, version 1
\* or 0 and type 0 or 1; or file_id 0x2f00, version 0 and type 0 or 1.
TypeWords == {LE32(kSaleaeDigitalType), LE32(kSaleaeAnalogType)}
MagicShape(b, version) ==
    /\ Len(b) >= Len(kSaleaeMagic) + 2 * SizeofInt32
    /\ SubSeq(b, 1, Len(kSaleaeMagic)) = kSaleaeMagic
    /\ SubSeq(b, Len(kSaleaeMagic) + 1, Len(kSaleaeMagic) + 4) = LE32(version)
    /\ SubSeq(b, Len(kSaleaeMagic) + 5, Len(kSaleaeMagic) + 8) \in TypeWords
LegacyShape(b) ==
    /\ Len(b) >= 3 * SizeofInt32
    /\ SubSeq(b, 1, 4) = LE32(kSaleaeV0FileId)
    /\ SubSeq(b, 5, 8) = LE32(kSaleaeVersion0)
    /\ SubSeq(b, 9, 12) \in TypeWords
HeaderShapeOk(b) ==
    MagicShape(b, kSaleaeVersion1) \/ MagicShape(b, kSaleaeVersion0) \/ LegacyShape(b)

\* C15: the binary reader's finish emits counter samples only for a file whose
\* header is the magic with version 1 and type 0 or 1, the magic with version
\* 0 and type 0 or 1, or no magic with file_id 0x2f00, version 0 and type 0
\* or 1; for every other header finish fails and the file has no counter
\* sample and no track.
C15_SupportedHeaders ==
    kind = "binary" /\ finished /\ ~HeaderShapeOk(bin.buffer_) =>
        /\ IsError(status)
        /\ storage.counters = <<>>
        /\ storage.tracks = <<>>

C15_Witness ==
    /\ kind = "binary" /\ finished /\ ~HeaderShapeOk(bin.buffer_)
    /\ Len(bin.buffer_) > Len(kSaleaeMagic) + 2 * SizeofInt32
    /\ status = "Unsupported Saleae data type"
    /\ storage.counters = <<>> /\ storage.tracks = <<>>

\* The chunk_count field of a file with the magic, version 1 and a supported
\* type, once the reader holds it.
HasChunkCount(b) == MagicShape(b, kSaleaeVersion1) /\ Len(b) >= Len(kSaleaeMagic) + 2 * SizeofInt32 + SizeofInt64
ChunkCountOf(b) == SubSeq(b, Len(kSaleaeMagic) + 2 * SizeofInt32 + 1, Len(kSaleaeMagic) + 2 * SizeofInt32 + SizeofInt64)
RECURSIVE SumEmitted(_)
SumEmitted(log) == IF log = <<>> THEN 0 ELSE Head(log).emitted + SumEmitted(Tail(log))
\* Version 1 files of chunks that all decode.
WholeChunks == {c \in FewDigitalChunks : c.declared = LE64(Len(c.times))}
WholeChunkFile(l) ==
    MagicHeader(kSaleaeVersion1, kSaleaeDigitalType) \o LE64(Len(l)) \o Concat([i \in 1..Len(l) |-> DigitalChunkV1Bytes(l[i])])

\* C16: for the magic with version 1 the reader decodes exactly chunk_count
\* chunks, in file order; a negative chunk_count fails before any chunk is
\* decoded; when a chunk fails, finish returns that chunk's error, no later
\* chunk is decoded, and the samples of the chunks before it stay emitted.
C16_ChunkCountChunks ==
    kind = "binary" /\ finished /\ ~oob /\ HasChunkCount(bin.buffer_) =>
        LET chunk_count == ChunkCountOf(bin.buffer_)
            n == Len(chunkLog)
        IN IF I64Negative(chunk_count)
           THEN chunkLog = <<>> /\ status = "Invalid Saleae chunk count" /\ storage = NewStorage
           ELSE /\ ~U64Less(chunk_count, LE64(n))
                /\ \A j \in 1..(n - 1) : chunkLog[j].status = "ok"
                /\ (status = "ok") <=> (chunk_count = LE64(n) /\ (n > 0 => chunkLog[n].status = "ok"))
                /\ status # "ok" => n > 0 /\ chunkLog[n].status = status /\ IsError(status)
                /\ Len(storage.counters) = SumEmitted(chunkLog)
                /\ \A l \in ChunkLists(WholeChunks) :
                       bin.buffer_ = WholeChunkFile(l) =>
                           /\ n = Len(l)
                           /\ \A j \in 1..n :
                               /\ chunkLog[j].initial = l[j].initial
                               /\ chunkLog[j].emitted = Len(l[j].times) + 1
                               /\ ChunkSamples(chunkLog[j])[1].value = I32(l[j].initial)

\* A second chunk fails after a first one emitted samples.
C16_Witness ==
    /\ kind = "binary" /\ finished /\ ~oob /\ HasChunkCount(bin.buffer_)
    /\ ChunkCountOf(bin.buffer_) = LE64(2)
    /\ Len(chunkLog) = 2
    /\ chunkLog[1].status = "ok" /\ chunkLog[1].emitted > 0
    /\ IsError(chunkLog[2].status) /\ status = chunkLog[2].status
    /\ Len(storage.counters) = chunkLog[1].emitted

\* C17: all counter samples of one binary file carry the same track handle,
\* the one cached while the first chunk was decoded.
C17_OneTrackHandle ==
    kind = "binary" /\ ~oob =>
        \A i \in DOMAIN storage.counters :
            /\ storage.counters[i].track = storage.counters[1].track
            /\ storage.counters[i].track = 0
            /\ storage.counters[i].track = bin.track_id_
            /\ storage.counters[i].track + 1 \in DOMAIN storage.tracks

\* Two chunks of one file have both emitted samples.
C17_Witness ==
    /\ kind = "binary" /\ finished /\ ~oob
    /\ Len(chunkLog) >= 2
    /\ \A j \in 1..2 : chunkLog[j].status = "ok" /\ chunkLog[j].emitted > 0
    /\ Len(storage.counters) = SumEmitted(chunkLog)
    /\ \A i \in DOMAIN storage.counters : storage.counters[i].track = 0

\* Rows that got as far as the track lookup.
TrackedRows == {i \in DOMAIN rowLog : rowLog[i].track # None}

\* C18: the CSV reader asks the registry for a track at most once per
\* analyzer name as written; a later row with the same name uses the cached
\* handle; the raw slice of a row and the transaction slice of a closing stop
\* are on the track of the row's analyzer name; the test file yields exactly
\* the tracks "Saleae CSV: I2C" and "Saleae CSV: Async Serial".
C18_OneTrackPerAnalyzer ==
    kind = "csv" /\ ~oob =>
        /\ \A i, j \in TrackedRows :
            i < j /\ SameAnalyzer(i, j) => rowLog[j].created = 0 /\ rowLog[j].track = rowLog[i].track
        /\ \A i \in TrackedRows :
            /\ rowLog[i].track + 1 \in DOMAIN storage.tracks
            /\ storage.tracks[rowLog[i].track + 1].dimension = rowLog[i].analyzer
            /\ storage.tracks[rowLog[i].track + 1].name = StrTrackPrefix \o rowLog[i].analyzer
        /\ Len(storage.tracks) = Cardinality({rowLog[i].analyzer : i \in TrackedRows})
        /\ \A i \in OkRows :
            /\ storage.slices[rowLog[i].at + 1].track = rowLog[i].track
            /\ i \in ClosingStops => storage.slices[rowLog[i].at + 2].track = rowLog[i].track
        /\ finished /\ fed = TestCsvFile =>
            [i \in 1..Len(storage.tracks) |-> storage.tracks[i].name] = <<StrTrackI2C, StrTrackAsync>>

\* The test file is parsed: two tracks, a row that reused a handle, and a
\* closing stop whose two slices are on its analyzer's track.
C18_Witness ==
    /\ kind = "csv" /\ ~oob /\ finished /\ fed = TestCsvFile
    /\ Len(storage.tracks) = 2
    /\ \E i, j \in TrackedRows : i < j /\ SameAnalyzer(i, j) /\ rowLog[j].created = 0
    /\ \E i \in ClosingStops : storage.slices[rowLog[i].at + 2].track = rowLog[i].track

\* The unit tests' payload: initial_state 0, begin 0, transitions 0.5 and 1.0.
TestPayload == [initial |-> LE32(0), begin |-> F64Zero, times |-> <<F64Half, F64One>>]
TestSamples == <<[ts |-> 0, value |-> 0], [ts |-> 500000000, value |-> 1], [ts |-> 1000000000, value |-> 0]>>
SamplesOf(counters) == [i \in 1..Len(counters) |-> [ts |-> counters[i].ts, value |-> counters[i].value]]
CarriedPayloads == {p \in Payloads : \E k \in Containers : bin.buffer_ = ContainerFile(k, p)}

\* C19: a digital payload gives the same sequence of counter samples whether
\* it comes in a file without magic (file_id 0x2f00, version 0), in a file
\* with the magic and version 0, or in a file with the magic, version 1 and
\* chunk_count 1; for initial_state 0, begin 0 and transitions 0.5 and 1.0
\* the sequence is (0,0), (500000000,1), (1000000000,0).
C19_ContainersAgree ==
    kind = "binary" /\ finished /\ ~oob =>
        \A p \in CarriedPayloads :
            /\ status = "ok"
            /\ \A k \in Containers, ub \in UBOutcomes :
                LET other == OneShot("binary", ContainerFile(k, p), ub)
                IN /\ ~other.failed /\ ~other.final.oob
                   /\ SamplesOf(other.final.counters) = SamplesOf(storage.counters)
            /\ p = TestPayload => SamplesOf(storage.counters) = TestSamples

\* The test payload has been decoded from the file without magic.
C19_Witness ==
    /\ kind = "binary" /\ finished /\ ~oob
    /\ bin.buffer_ = ContainerFile("legacy_v0", TestPayload)
    /\ SamplesOf(storage.counters) = TestSamples

\* A payload that begins late has been decoded from a version 1 file.
C19_WitnessLate ==
    /\ kind = "binary" /\ finished /\ ~oob
    /\ \E p \in LatePayloads : bin.buffer_ = ContainerFile("magic_v1", p)
    /\ Len(storage.counters) >= 2 /\ storage.counters[1].ts > 0

\* C20: finish on a reader that received no bytes, after no feed or after
\* empty feeds only, fails with the empty-input error for the binary reader
\* and succeeds for the CSV reader; no track, counter sample or slice is
\* emitted in either case.
C20_FinishWithoutBytes ==
    finished /\ fed = <<>> =>
        /\ storage = NewStorage
        /\ kind = "binary" => status = "Empty Saleae binary data"
        /\ kind = "csv" => status = "ok"
        /\ ~oob

\* Finish came after an empty feed, for either reader.
C20_Witness ==
    /\ finished /\ fed = <<>> /\ calls >= 2
    /\ storage = NewStorage
    /\ kind = "binary" /\ status = "Empty Saleae binary data"

C20_WitnessCsv ==
    /\ finished /\ fed = <<>> /\ calls >= 1
    /\ storage = NewStorage
    /\ kind = "csv" /\ status = "ok"

\* What a call left behind that a caller can observe: the tables, whether a
\* read went out of bounds, and the unread bytes.
Outcome(r) == [tracks |-> r.tracks, slices |-> r.slices, oob |-> r.oob, reader_ |-> r.reader_]
Unterminated(bytes) == bytes # <<>> /\ bytes[Len(bytes)] # LF

RECURSIVE SplitAtLF(_)
SplitAtLF(bytes) ==
    LET at == FindNewline(bytes, 1)
    IN IF at = 0 THEN <<>>
       ELSE <<SubSeq(bytes, 1, at - 1)>> \o SplitAtLF(SubSeq(bytes, at + 1, Len(bytes)))
NonBlank(line) == TrimWhitespace(line) # <<>>
Consumed == SubSeq(fed, 1, Len(fed) - Len(csv.reader_))
HandledLines ==
    IF ~finished THEN SelectSeq(SplitAtLF(Consumed), NonBlank)
    ELSE IF FindNewline(fed, 1) = 0 /\ NonBlank(fed) THEN <<fed>>
    ELSE <<>>
\* The column names of a header line, and whether the required ones are there.
HeaderNames(line) ==
    LET fields == ParseCsvLine(IF line[Len(line)] = CR THEN SubSeq(line, 1, Len(line) - 1) ELSE line)
    IN [i \in 1..Len(fields) |->
            IF i = 1 THEN StripUtf8Bom(TrimWhitespace(fields[i])) ELSE TrimWhitespace(fields[i])]
HasRequired(line) ==
    LET lower == {ToLower(HeaderNames(line)[i]) : i \in 1..Len(HeaderNames(line))}
    IN /\ StrName \in lower
       /\ StrType \in lower
       /\ StrStartTime \in lower \/ StrStartTimeSp \in lower
       /\ StrDuration \in lower

\* C22: the first non-blank line is taken as the header and is accepted only
\* when it has, in any letter case, the columns name, type, start_time (or
\* "start time") and duration; when one is absent the call fails, the header
\* is not accepted, and no slice and no track has been emitted.
C22_HeaderNeedsRequiredColumns ==
    kind = "csv" /\ ~oob =>
        /\ ~csv.header_parsed_ => storage = NewStorage /\ rowLog = <<>>
        /\ Len(HandledLines) = 1 =>
            LET header == HandledLines[1]
            IN /\ csv.header_parsed_ <=> HasRequired(header)
               /\ storage = NewStorage /\ rowLog = <<>>
               /\ HasRequired(header) => errorMark = None /\ csv.columns_ = HeaderNames(header)
               /\ ~HasRequired(header) => errorMark = 0

\* A first line without a type column has been refused, after a blank line
\* or not.
C22_Witness ==
    /\ kind = "csv" /\ ~oob /\ ~finished
    /\ Len(HandledLines) = 1 /\ ~HasRequired(HandledLines[1])
    /\ HandledLines[1] = HdrNoType
    /\ status = "Saleae CSV header missing required columns"
    /\ ~csv.header_parsed_ /\ storage = NewStorage

\* A header after a blank line has been accepted.
C22_WitnessAccepted ==
    /\ kind = "csv" /\ ~oob /\ ~finished
    /\ Len(SplitAtLF(Consumed)) = 2 /\ Len(HandledLines) = 1
    /\ csv.header_parsed_ /\ status = "ok"

\* Rows parsed without error whose analyzer name does not lower-case to "i2c",
\* and the number of slices a row added.
OtherAnalyzerRows == {i \in OkRows : ToLower(rowLog[i].analyzer) # StrI2c}
SlicesOfRow(i) ==
    (IF i = Len(rowLog) THEN Len(storage.slices) ELSE rowLog[i + 1].at) - rowLog[i].at

\* C23: only rows whose lower-cased analyzer name is "i2c" take part in
\* transaction reconstruction; a row of any other analyzer, whatever its
\* type, adds exactly its one raw slice, touches no transaction state, and
\* no transaction slice is ever on the track of such an analyzer.
C23_OnlyI2cReconstructs ==
    kind = "csv" /\ ~oob =>
        /\ \A i \in OtherAnalyzerRows :
            /\ SlicesOfRow(i) = 1
            /\ storage.slices[rowLog[i].at + 1].ts = rowLog[i].ts_ns
            /\ storage.slices[rowLog[i].at + 1].name = rowLog[i].event_name
            /\ storage.slices[rowLog[i].at + 1].category # StrI2c
            /\ rowLog[i].analyzer \notin DOMAIN csv.transaction_state_
        /\ \A k \in DOMAIN storage.slices :
            storage.slices[k].category = StrI2c =>
                ToLower(storage.tracks[storage.slices[k].track + 1].dimension) = StrI2c

\* Start, address, data and stop rows of the analyzer SPI were parsed.
C23_Witness ==
    /\ kind = "csv" /\ ~oob
    /\ \E a, b, c, d \in OtherAnalyzerRows :
        /\ a < b /\ b < c /\ c < d
        /\ rowLog[a].analyzer = StrSPI /\ rowLog[d].analyzer = StrSPI
        /\ rowLog[a].type_lower = StrStart /\ rowLog[b].type_lower = StrAddress
        /\ rowLog[c].type_lower = StrData /\ rowLog[d].type_lower = StrStop
        /\ SlicesOfRow(d) = 1

\* sample_rate > 0 and downsample > 0, read off the fields a waveform header
\* carries: a double and an int64 in version 1, two uint64 in version 0.
RatePositive(w) ==
    IF w.decoder = "analog_v1"
    THEN ~F64Neg(w.sample_rate) /\ ~F64IsNaN(w.sample_rate) /\ \E i \in 1..8 : w.sample_rate[i] # 0
    ELSE ~U64Zero(w.sample_rate)
DownsamplePositive(w) ==
    IF w.decoder = "analog_v1" THEN ~I64Negative(w.downsample) /\ ~U64Zero(w.downsample)
    ELSE ~U64Zero(w.downsample)
WholeWaves == {w \in FewAnalogWaves : w.rate > 0 /\ w.declared = LE64(Len(w.samples))}
RECURSIVE WaveValues(_)
WaveValues(l) ==
    IF l = <<>> THEN <<>>
    ELSE [i \in 1..Len(Head(l).samples) |-> F32Sixteenths(Head(l).samples[i])] \o WaveValues(Tail(l))

\* C24: an analog chunk whose waveforms all decode emits as many counter
\* samples as its waveforms declare, in file order; a waveform whose
\* sample_rate is not > 0 or whose downsample is not > 0 makes finish fail,
\* emits no sample and ends the decoding, the samples of the waveforms before
\* it staying emitted; the single waveform of version 0 likewise, for a
\* sample_rate or a downsample of 0.
C24_AnalogWaveforms ==
    kind = "binary" /\ finished /\ ~oob =>
        /\ \A j \in DOMAIN waveLog :
            waveLog[j].headerRead =>
                /\ ~(RatePositive(waveLog[j]) /\ DownsamplePositive(waveLog[j])) =>
                    /\ IsError(waveLog[j].status)
                    /\ waveLog[j].emitted = 0
                    /\ j = Len(waveLog)
                    /\ status = waveLog[j].status
                /\ waveLog[j].status = "ok" => LE64(waveLog[j].emitted) = waveLog[j].declared
        /\ waveLog # <<>> => Len(storage.counters) = SumEmitted(waveLog)
        /\ \A l \in ChunkLists(WholeWaves) :
            bin.buffer_ = MagicHeader(kSaleaeVersion1, kSaleaeAnalogType) \o LE64(1) \o AnalogChunkV1Bytes(l) =>
                /\ status = "ok"
                /\ [i \in 1..Len(storage.counters) |-> storage.counters[i].value] = WaveValues(l)

\* C25: a feed of the binary reader only appends: it succeeds whatever the
\* bytes, emits no counter sample and creates no track; every event of a
\* binary file is emitted during finish, the only call that can return a
\* decode error.
C25_BinaryFeedAppends ==
    kind = "binary" =>
        /\ ~oob => bin.buffer_ = fed
        /\ ~finished =>
            /\ status = "ok" /\ errorMark = None /\ ~oob
            /\ storage = NewStorage
            /\ bin.track_id_ = None
            /\ chunkLog = <<>> /\ waveLog = <<>>

\* A whole file has been fed in two calls and nothing has been emitted yet.
C25_Witness ==
    /\ kind = "binary" /\ ~finished /\ calls = 2
    /\ pending = <<>> /\ Len(fed) > Len(kSaleaeMagic) + 2 * SizeofInt32
    /\ bin.buffer_ = fed /\ status = "ok"
    /\ storage = NewStorage

\* The same file has then been finished and has emitted samples.
C25_WitnessFinish ==
    /\ kind = "binary" /\ finished /\ calls = 2 /\ ~oob
    /\ bin.buffer_ = fed
    /\ storage.counters # <<>>

\* Rows that fail on a field, with the error each returns under HdrFull.
FailingRows ==
    {[row |-> RowBadTime, error |-> "Saleae CSV invalid start_time"],
     [row |-> RowNoTime, error |-> "Saleae CSV row missing start_time"],
     [row |-> RowBadDuration, error |-> "Saleae CSV invalid duration"]}
FailedRows == {i \in DOMAIN rowLog : rowLog[i].status \in RowFieldErrors}

\* C26: a data row that fails on its start_time (empty or not a number) or on
\* its duration (not empty and not a number) returns an error and does
\* nothing else: no slice, no track, no change of a transaction state; the
\* slices of the rows before it stay.
C26_FailedRowHasNoEffect ==
    kind = "csv" /\ ~oob =>
        /\ \A i \in FailedRows :
            /\ SlicesOfRow(i) = 0
            /\ rowLog[i].created = 0
            /\ rowLog[i].post = rowLog[i].pre
            /\ \A j \in DOMAIN rowLog :
                j > i /\ SameAnalyzer(i, j) /\ (\A k \in (i + 1)..(j - 1) : ~SameAnalyzer(i, k))
                    => rowLog[j].pre = rowLog[i].pre
        /\ ~finished /\ csv.header_parsed_ /\ csv.columns_ = HeaderNames(HdrFull) =>
            \A f \in FailingRows, ub \in UBOutcomes :
                LET out == ParseRow(Machine, f.row, ub)
                IN /\ out.status = f.error
                   /\ Project(out, csv) = csv
                   /\ Project(out, storage) = storage

\* A stop row without start_time failed inside an open transaction after
\* slices had been emitted, and the next row found the transaction as it was.
C26_Witness ==
    /\ kind = "csv" /\ ~oob
    /\ \E i \in FailedRows :
        /\ rowLog[i].status = "Saleae CSV row missing start_time"
        /\ rowLog[i].pre.open /\ rowLog[i].pre.write_bytes # <<>>
        /\ rowLog[i].at > 0 /\ Len(storage.slices) >= rowLog[i].at
        /\ i < Len(rowLog) /\ rowLog[i + 1].pre = rowLog[i].pre

\* The column list and the role-to-index mapping.
Schema(c) ==
    <<c.columns_, c.name_col_, c.type_col_, c.start_time_col_, c.duration_col_,
      c.data_col_, c.address_col_, c.read_col_>>
\* The non-blank lines a step hands to ParseLine: those among the bytes a
\* feed consumes, or the residual at finish.
LinesOfStep ==
    IF finished' THEN (IF NonBlank(csv.reader_) THEN 1 ELSE 0)
    ELSE Len(SelectSeq(SplitAtLF(Consumed'), NonBlank)) - Len(SelectSeq(SplitAtLF(Consumed), NonBlank))

\* C27: the column schema is built once: after a header line has been
\* accepted no call changes the column list or a role index, the header stays
\* accepted, and every non-blank line handed over afterwards is processed as
\* a data row, the header's own text included.
C27_SchemaBuiltOnce ==
    [][kind = "csv" /\ csv.header_parsed_ =>
            /\ csv'.header_parsed_
            /\ Schema(csv') = Schema(csv)
            /\ Len(rowLog') - Len(rowLog) = LinesOfStep]_vars

\* The header's text came again after the header and was parsed as a row.
C27_Witness ==
    /\ kind = "csv" /\ ~oob /\ csv.header_parsed_
    /\ csv.columns_ = HeaderNames(HdrFull)
    /\ \E i \in DOMAIN rowLog :
        /\ i > 1
        /\ rowLog[i].analyzer = StrName /\ rowLog[i].type = StrType
        /\ rowLog[i].status = "Saleae CSV invalid start_time"

DigitalChunkEntries == {j \in DOMAIN chunkLog : chunkLog[j].decoder \in DigitalDecoders}

\* C28: a digital chunk is emitted all or nothing: a chunk that fails has
\* pushed no sample and created no track, and a chunk that passed the tests
\* on its header and on the fit of its k declared transitions has pushed all
\* k + 1 samples.
C28_DigitalChunkAllOrNothing ==
    kind = "binary" =>
        \A j \in DigitalChunkEntries :
            \/ /\ IsError(chunkLog[j].status)
               /\ chunkLog[j].emitted = 0
               /\ chunkLog[j].created = 0
            \/ /\ chunkLog[j].status = "ok"
               /\ chunkLog[j].emitted >= 1
               /\ LE64(chunkLog[j].emitted - 1) = chunkLog[j].declared

\* The same on the runs in which no decoder read past the buffer.
C28_WithinBuffer == ~oob => C28_DigitalChunkAllOrNothing


\* The track rows on which no counter sample was pushed.
EmptyTracks ==
    {t \in DOMAIN storage.tracks :
        \A i \in DOMAIN storage.counters : storage.counters[i].track # t - 1}

\* C29: after finish on a binary file, whether it succeeded or failed, every
\* track that was created carries at least one counter sample: no decode path
\* (zero chunks, zero waveforms, zero samples, a failure in the first chunk or
\* waveform) leaves a track without samples.
C29_NoTrackWithoutSamples ==
    kind = "binary" /\ finished => EmptyTracks = {}

\* The same for files whose decoding ran a single chunk decoder, a digital
\* one, within the buffer: the digital decoders create the track after their
\* validation and always push the begin sample on it.
C29_DigitalSingleChunk ==
    kind = "binary" /\ finished /\ ~oob /\ Len(chunkLog) <= 1
        /\ (\A j \in DOMAIN chunkLog : chunkLog[j].decoder \in DigitalDecoders)
        => EmptyTracks = {}

\* A role index of the reader is unset, or designates a column of columns_
\* whose lower-cased name is one of names.
RoleDesignates(col, names) ==
    col # None =>
        /\ col < Len(csv.columns_)
        /\ ToLower(csv.columns_[col + 1]) \in names
RolesDesignate ==
    /\ RoleDesignates(csv.name_col_, {StrName})
    /\ RoleDesignates(csv.type_col_, {StrType})
    /\ RoleDesignates(csv.start_time_col_, {StrStartTime, StrStartTimeSp})
    /\ RoleDesignates(csv.duration_col_, {StrDuration})
    /\ RoleDesignates(csv.data_col_, {StrData})
    /\ RoleDesignates(csv.address_col_, {StrAddress})
    /\ RoleDesignates(csv.read_col_, {StrRead})

\* C30: whenever data rows are processed, after any sequence of feed calls,
\* calls made after a header error included, every role index that is set is
\* smaller than the number of columns of the accepted header and designates a
\* column of that header with the role's name, and no row has read a field
\* beyond its field list.
C30_RoleIndicesWithinHeader ==
    kind = "csv" /\ csv.header_parsed_ => RolesDesignate /\ ~oob

\* The same when the header accepted is the first header line the reader was
\* given, so that no refused header came before it.
C30_FirstHeaderAccepted ==
    kind = "csv" /\ csv.header_parsed_ /\ ~finished
        /\ Len(HandledLines) >= 1 /\ HasRequired(HandledLines[1])
        => RolesDesignate /\ ~oob

\* The lengths k of the prefixes of the delivered bytes that a fresh binary
\* reader decodes to their last byte: finish succeeds within the buffer and
\* the cursor of ParseBuffer ends at k.
DecodedWhole(k, ub) ==
    LET short == OneShot("binary", SubSeq(fed, 1, k), ub).final
    IN short.status = "ok" /\ ~short.oob /\ short.pos = k
WholePrefixes == {k \in 1..Len(fed) : \A ub \in UBOutcomes : DecodedWhole(k, ub)}

\* C31: bytes that remain in the buffer after the last decoded chunk are
\* ignored: when a prefix of the bytes delivered is decoded to its end (one
\* chunk of a version 0 or legacy file, chunk_count chunks of a version 1
\* file, chunk_count 0 included), finish on all the bytes succeeds and leaves
\* the tracks and samples that finish on the prefix leaves (one of them, when
\* the prefix holds a value whose conversion the build decides).
C31_TrailingBytesIgnored ==
    kind = "binary" /\ finished =>
        \A k \in WholePrefixes :
            /\ status = "ok" /\ ~oob
            /\ \E ub \in UBOutcomes :
                storage = Project(OneShot("binary", SubSeq(fed, 1, k), ub).final, storage)

\* A legacy file was finished with bytes after its chunk, and samples were
\* emitted.
C31_Witness ==
    /\ kind = "binary" /\ finished
    /\ ~MatchesMagic(fed)
    /\ \E k \in WholePrefixes : k < Len(fed)
    /\ storage.counters # <<>>

\* A version 1 file of chunk_count 0 was finished with bytes after the header.
C31_WitnessNoChunks ==
    /\ kind = "binary" /\ finished
    /\ MatchesMagic(fed) /\ chunkLog = <<>>
    /\ \E k \in WholePrefixes : k < Len(fed)

\* A version 1 file of two chunks was finished with bytes after the second.
C31_WitnessChunks ==
    /\ kind = "binary" /\ finished
    /\ Len(chunkLog) = 2
    /\ \E k \in WholePrefixes : k < Len(fed)

\* The rows of the I2C state machine, by what they did to the state of their
\* analyzer: a start row that opened it (ClosingStops are the stop rows that
\* closed it).
I2cRows == {i \in OkRows : rowLog[i].i2c}
OpeningStarts == {i \in I2cRows : rowLog[i].type_lower = StrStart /\ ~rowLog[i].pre.open}
RowsOfKey(key) == {i \in I2cRows : rowLog[i].analyzer = key}
Emptied(state) == state.address = <<>> /\ state.write_bytes = <<>> /\ state.read_bytes = <<>>

\* C32: whenever the transaction state of an analyzer is closed, initially
\* and after a stop row has closed it, its address is empty and its
\* write_bytes and read_bytes lists are empty.
C32_ClosedStateIsEmpty ==
    kind = "csv" /\ ~oob =>
        \A key \in DOMAIN csv.transaction_state_ :
            ~csv.transaction_state_[key].open => Emptied(csv.transaction_state_[key])

\* C32, as the reader does it: a transaction state that was never opened is
\* the empty state; a stop row that closes a state only clears open, so the
\* closed state keeps the address and the bytes of the transaction it closed;
\* they are cleared by the next start row that opens the state, so that every
\* transaction begins with an empty address and empty byte lists.
C32_ClosedStateClearedByStart ==
    kind = "csv" /\ ~oob =>
        /\ \A i \in ClosingStops : rowLog[i].post = [rowLog[i].pre EXCEPT !.open = FALSE]
        /\ \A i \in OpeningStarts :
            /\ rowLog[i].post.open /\ Emptied(rowLog[i].post) /\ ~rowLog[i].post.read
            /\ rowLog[i].post.start_ts_ns = rowLog[i].ts_ns
        /\ \A key \in DOMAIN csv.transaction_state_ :
            LET state == csv.transaction_state_[key]
                closers == RowsOfKey(key) \cap ClosingStops
            IN ~state.open =>
                IF closers = {} THEN state = NewTransactionState
                ELSE LET last == CHOOSE i \in closers : \A j \in closers : j <= i
                     IN /\ state = rowLog[last].post
                        /\ \A j \in RowsOfKey(key) : j > last => rowLog[j].post = state

\* A stop row has closed a transaction that had collected an address and a
\* byte, and the closed state still holds them.
C32_Witness ==
    /\ kind = "csv" /\ ~oob
    /\ \E key \in DOMAIN csv.transaction_state_ :
        /\ ~csv.transaction_state_[key].open
        /\ csv.transaction_state_[key].address # <<>>
        /\ csv.transaction_state_[key].write_bytes # <<>>
        /\ RowsOfKey(key) \cap ClosingStops # {}

\* A start row has found a closed state that held the contents of the
\* transaction before, and has opened it empty.
C32_WitnessRestart ==
    /\ kind = "csv" /\ ~oob
    /\ \E i \in OpeningStarts : ~Emptied(rowLog[i].pre) /\ Emptied(rowLog[i].post)
=============================================================================
